---- MODULE Spec2Model ----
(***************************************************************************)
(* FlowKit gating engine: the Rectangle gate predicate and the strategy's  *)
(* gate_sample (flowkit/models/gate.py), the batch evaluator _gate_samples *)
(* and the Session bookkeeping around it (flowkit/_models/session.py).     *)
(*                                                                         *)
(* Python values are modelled as follows.  An optional number (None or a   *)
(* float) is a set with at most one element.  A call's outcome is a record *)
(* [exc, val]: exc = "none" for a normal return of val, otherwise the name *)
(* of the exception that leaves the call.  A dict whose order matters is a *)
(* sequence of its keys in insertion order next to a function.             *)
(***************************************************************************)
EXTENDS Integers, Sequences, FiniteSets, TLC

VARIABLES
    \* ---- gate.py: one strategy, one sample, the last call made on them
    gates,          \* GatingStrategy.gates: gate id -> gate
    pnn_labels,     \* sample.pnn_labels
    events,         \* sample.get_raw_events(): rows of channel values
    call,           \* the last call made: [op, arg]
    ret,            \* its outcome
    first_ret       \* gate_id argument -> the outcome of the first gate_sample made with it

VARIABLES
    \* ---- the evaluation of one sample's strategy, pass by pass
    ev_pc,          \* "idle", "pass" (inside a pass) or "done"
    ev_pending,     \* the gate paths the current pass has still to visit
    ev_deferred,    \* the gate paths the current pass has deferred
    ev_done,        \* the completed-gate set: gate path -> mask
    ev_progress     \* a gate was completed in the current pass

eval_vars == <<ev_pc, ev_pending, ev_deferred, ev_done, ev_progress>>

gate_vars == <<gates, pnn_labels, events, call, ret, first_ret, eval_vars>>

VARIABLES
    \* ---- session.py, _gate_samples: the arguments and the machine
    gating_strategies,  \* argument: the i-th unit's strategy
    samples,            \* argument: the i-th unit's sample
    multi_proc,         \* gate_utils.multi_proc
    cpu_count,          \* mp.cpu_count()
    use_mp,             \* argument of the call in progress, or of the last call
    b_pc,               \* "idle", "pool" (inside pool.map) or "loop" (the for loop)
    pool_requested,     \* the call reached mp.get_context("spawn").Pool(...)
    proc_count,         \* local proc_count (0 before it is assigned)
    workers,            \* pool worker -> the chunk it is running, 0 when idle
    next_chunk,         \* the next chunk of the pool's task queue
    map_value,          \* MapResult._value: index -> result once set
    map_success,        \* MapResult._success
    map_exc,            \* the exception MapResult._value holds after a failure
    number_left,        \* MapResult._number_left
    loop_i,             \* the for loop's position
    all_results,        \* local all_results
    evaluated_by,       \* unit -> the process that ran its gate_sample in this call
    finish_order,       \* the chunks of this call's pool.map in the order they finished
    outcomes            \* path -> how the last call that took the path ended

batch_in == <<gating_strategies, samples, multi_proc, cpu_count>>
batch_vars == <<batch_in, use_mp, b_pc, pool_requested, proc_count, workers, next_chunk,
                map_value, map_success, map_exc, number_left, loop_i, all_results,
                evaluated_by, finish_order, outcomes>>

VARIABLES
    \* ---- session.py, Session
    sample_lut,         \* Session.sample_lut: sample id -> "Sample" or "None"
    sample_group_lut,   \* Session._sample_group_lut: group -> [template, order, samples]
    heap,               \* the GatingStrategy objects: object -> its gates
    results_lut,        \* Session._results_lut: group -> [report, samples]
    last                \* the last Session call: how it ended and what it ran

session_vars == <<sample_lut, sample_group_lut, heap, results_lut, last>>


vars == <<gate_vars, batch_vars, session_vars>>

\* no evaluation in progress
EvalIdle ==
    /\ ev_pc = "idle" /\ ev_pending = <<>> /\ ev_deferred = <<>>
    /\ ev_done = <<>> /\ ev_progress = FALSE

-----------------------------------------------------------------------------
(* Bounds *)

\* event values and gate bounds range over 0..MaxVal
MaxVal == 1

\* _gate_samples is called with at most MaxSamples units
MaxSamples == 3

\* mp.cpu_count() ranges over 1..MaxCpu
MaxCpu == 3

\* a Session run creates at most MaxObj GatingStrategy objects
MaxObj == 4

\* an Ellipsoid element has at most MaxDim coordinates, rows and entries per row
MaxDim == 3

Vals == 0..MaxVal

-----------------------------------------------------------------------------
(* Python values *)

None == {}
Some(v) == {v}
IsNone(x) == x = {}
The(x) == CHOOSE v \in x : TRUE
Opt(S) == {None} \cup {Some(v) : v \in S}

Return(v) == [exc |-> "none", val |-> v]
Raise(e) == [exc |-> e, val |-> <<>>]
Raised(r) == r.exc # "none"

\* list.index(x): the first position holding x; 0 stands for its ValueError
Index(list, x) ==
    IF \E i \in DOMAIN list : list[i] = x
    THEN CHOOSE i \in DOMAIN list : list[i] = x /\ \A j \in 1..(i - 1) : list[j] # x
    ELSE 0

-----------------------------------------------------------------------------
(* flowkit/models/gate.py *)

\* Dimension: the channel label and the optional bounds
Dimension(label, min, max) == [label |-> label, min |-> min, max |-> max]

\* Gate: id, optional parent id, dimensions in document order
Gate(id, parent, dimensions) == [id |-> id, parent |-> parent, dimensions |-> dimensions]

\* the first loop of RectangleGate.apply (lines 129-137), dimension by dimension:
\* the position of the first dimension that raises, 0 when none does
RECURSIVE FirstBadDim(_, _, _)
FirstBadDim(dims, labels, i) ==
    IF i > Len(dims) THEN 0
    ELSE IF IsNone(dims[i].min) /\ IsNone(dims[i].max) THEN i
    ELSE IF Index(labels, dims[i].label) = 0 THEN i
    ELSE FirstBadDim(dims, labels, i + 1)

\* events[:, d_idx] >= dim_min[i]
CmpMin(row, d_idx, min) == row[d_idx] >= min

\* events[:, d_idx] < dim_max[i]
CmpMaxInclusive(row, d_idx, max) == row[d_idx] <= max
CmpMax(row, d_idx, max) == row[d_idx] < max

\* the second loop (lines 141-145) for one event: results starts True and is
\* and-ed with each present bound's comparison, dimension by dimension
RECURSIVE FoldDims(_, _, _, _, _)
FoldDims(dims, labels, row, i, results) ==
    IF i > Len(dims) THEN results
    ELSE LET d_idx == Index(labels, dims[i].label)
             r1 == IF ~IsNone(dims[i].min)
                   THEN results /\ CmpMin(row, d_idx, The(dims[i].min))
                   ELSE results
             r2 == IF ~IsNone(dims[i].max)
                   THEN r1 /\ CmpMax(row, d_idx, The(dims[i].max))
                   ELSE r1
         IN  FoldDims(dims, labels, row, i + 1, r2)

\* events.shape[1]
NCols == 2

\* RectangleGate.apply(events, pnn_labels)
RectangleGate_apply(gate, evs, labels) ==
    IF NCols # Len(labels) THEN Raise("ValueError")
    ELSE IF FirstBadDim(gate.dimensions, labels, 1) # 0 THEN Raise("ValueError")
    ELSE Return([e \in DOMAIN evs |-> FoldDims(gate.dimensions, labels, evs[e], 1, TRUE)])

-----------------------------------------------------------------------------
(* Rectangle gates applied to samples *)

Rows == [1..NCols -> Vals]
EventSets == [1..2 -> Rows]
LabelLists == {<<"X", "Y">>, <<"Y", "X">>, <<"X", "Z">>, <<"X">>}
DimLabels == {<<"X">>, <<"Y">>, <<"X", "Y">>}
Bounds == Opt(Vals)
DimsOver(ls) ==
    {[i \in DOMAIN ls |-> Dimension(ls[i], b[i][1], b[i][2])] :
        b \in [DOMAIN ls -> Bounds \X Bounds]}
RectGates == UNION {{Gate("G1", None, ds) : ds \in DimsOver(ls)} : ls \in DimLabels}

RectInit ==
    /\ gates \in {[g \in {"G1"} |-> rg] : rg \in RectGates}
    /\ pnn_labels \in LabelLists
    /\ events \in EventSets
    /\ call = [op |-> "none", arg |-> None, again |-> FALSE]
    /\ ret = Return(<<>>)
    /\ first_ret = <<>>
    /\ EvalIdle

\* gate.apply(sample.get_raw_events(), sample.pnn_labels)
Apply(gid) ==
    /\ call.op = "none"
    /\ call' = [op |-> "apply", arg |-> gid, again |-> FALSE]
    /\ ret' = RectangleGate_apply(gates[gid], events, pnn_labels)
    /\ UNCHANGED <<gates, pnn_labels, events, first_ret, eval_vars, batch_vars, session_vars>>

RectNext == \E gid \in DOMAIN gates : Apply(gid)

-----------------------------------------------------------------------------
(* GatingStrategy (gate.py): construction and gate_sample *)

\* the loop of GatingStrategy.__init__ over the document's gate elements
\* (lines 188-200): a gate id met twice raises, otherwise the dict grows
RECURSIVE AddParsedGates(_, _, _)
AddParsedGates(doc, i, acc) ==
    IF i > Len(doc) THEN Return(acc)
    ELSE IF doc[i].id \in DOMAIN acc THEN Raise("ValueError")
    ELSE AddParsedGates(doc, i + 1, acc @@ (doc[i].id :> doc[i]))

GatingStrategy_init(doc) == AddParsedGates(doc, 1, <<>>)

\* the gates gate_sample calls apply on, in the order of the calls (lines
\* 216-224): none when gates is the dict (its keys are strings), the single
\* gate self.gates[gate_id] otherwise
GateSampleApplied(gs, gate_id) ==
    IF IsNone(gate_id) \/ The(gate_id) \notin DOMAIN gs THEN <<>> ELSE <<The(gate_id)>>

\* gate_sample's loop "for gate in gates" (lines 223-224).  With gate_id None,
\* gates is the dict itself and the loop variable is a key, a string, which
\* has no apply: AttributeError on the first key.  Otherwise gates is the
\* one-element list [self.gates[gate_id]] and the mask is stored under gate_id.
GatingStrategy_gate_sample_in_parent(gs, evs, labels, gate_id) ==
    IF IsNone(gate_id)
    THEN IF DOMAIN gs = {} THEN Return(<<>>) ELSE Raise("AttributeError")
    ELSE IF The(gate_id) \notin DOMAIN gs THEN Raise("KeyError")
    ELSE LET g == gs[The(gate_id)]
             r == RectangleGate_apply(g, evs, labels)
             p == IF ~IsNone(g.parent) /\ The(g.parent) \in DOMAIN gs
                  THEN RectangleGate_apply(gs[The(g.parent)], evs, labels)
                  ELSE Return([e \in DOMAIN evs |-> TRUE])
         IN  IF Raised(r) THEN r
             ELSE IF Raised(p) THEN p
             ELSE Return(The(gate_id) :> [e \in DOMAIN evs |-> r.val[e] /\ p.val[e]])
GatingStrategy_gate_sample(gs, evs, labels, gate_id) ==
    IF IsNone(gate_id)
    THEN IF DOMAIN gs = {} THEN Return(<<>>) ELSE Raise("AttributeError")
    ELSE IF The(gate_id) \notin DOMAIN gs THEN Raise("KeyError")
    ELSE LET r == RectangleGate_apply(gs[The(gate_id)], evs, labels)
         IN  IF Raised(r) THEN r ELSE Return(The(gate_id) :> r.val)

\* the gate elements documents are made of: G1 at the root, G2 under G1 and
\* G2 at the root
GateElements ==
    { Gate("G1", None, <<Dimension("X", Some(0), Some(MaxVal))>>),
      Gate("G1", None, <<Dimension("Y", Some(MaxVal), None), Dimension("X", None, Some(MaxVal))>>),
      Gate("G1", None, <<Dimension("X", None, None)>>),
      Gate("G2", Some("G1"), <<Dimension("Y", None, Some(MaxVal))>>),
      Gate("G2", Some("G1"), <<Dimension("Z", Some(0), None)>>),
      Gate("G2", None, <<Dimension("X", Some(MaxVal), None)>>) }

\* documents of at most two gate elements
GateDocs ==
    {<<>>} \cup {<<g>> : g \in GateElements}
           \cup {<<g, h>> : <<g, h>> \in GateElements \X GateElements}

\* the gate_id arguments: None, the ids of the documents and an id of no gate
GateIdArgs == Opt({"G1", "G2", "G9"})

GateInit ==
    /\ gates = <<>>
    /\ pnn_labels \in {<<"X", "Y">>, <<"X">>}
    /\ events \in EventSets
    /\ call = [op |-> "none", arg |-> None, again |-> FALSE]
    /\ ret = Return(<<>>)
    /\ first_ret = <<>>
    /\ EvalIdle

\* GatingStrategy(gating_ml_file_path): the strategy exists when the
\* constructor returns
GateBuild(doc) ==
    /\ call.op = "none"
    /\ call' = [op |-> "init", arg |-> None, again |-> FALSE, doc |-> doc]
    /\ LET r == GatingStrategy_init(doc)
       IN  /\ ret' = [exc |-> r.exc, val |-> <<>>]
           /\ gates' = r.val
    /\ UNCHANGED <<pnn_labels, events, first_ret, eval_vars, batch_vars, session_vars>>

\* a strategy has been built
StrategyBuilt == call.op = "gate_sample" \/ (call.op = "init" /\ ~Raised(ret))

\* a variant that keeps the mask it computed on the gate it evaluated, as a
\* bound the next evaluation reads back
GateSampleCaching(gate_id) ==
    /\ StrategyBuilt
    /\ call' = [op |-> "gate_sample", arg |-> gate_id, again |-> gate_id \in DOMAIN first_ret,
                applied |-> GateSampleApplied(gates, gate_id)]
    /\ ret' = GatingStrategy_gate_sample(gates, events, pnn_labels, gate_id)
    /\ first_ret' = IF gate_id \in DOMAIN first_ret THEN first_ret
                    ELSE first_ret @@ (gate_id :> ret')
    /\ gates' = IF Raised(ret') \/ IsNone(gate_id) THEN gates
                ELSE [gates EXCEPT ![The(gate_id)].dimensions =
                         [i \in DOMAIN @ |-> [@[i] EXCEPT !.min = Some(MaxVal)]]]
    /\ UNCHANGED <<pnn_labels, events, eval_vars, batch_vars, session_vars>>

\* strategy.gate_sample(sample, gate_id): the outcome is returned to the
\* caller; nothing is assigned to the strategy, its gates or the sample
GateSample(gate_id) ==
    /\ StrategyBuilt
    /\ call' = [op |-> "gate_sample", arg |-> gate_id, again |-> gate_id \in DOMAIN first_ret,
                applied |-> GateSampleApplied(gates, gate_id)]
    /\ ret' = GatingStrategy_gate_sample(gates, events, pnn_labels, gate_id)
    /\ first_ret' = IF gate_id \in DOMAIN first_ret THEN first_ret
                    ELSE first_ret @@ (gate_id :> ret')
    /\ UNCHANGED <<gates, pnn_labels, events, eval_vars, batch_vars, session_vars>>

GateNext ==
    \/ \E doc \in GateDocs : GateBuild(doc)
    \/ \E gate_id \in GateIdArgs : GateSample(gate_id)

-----------------------------------------------------------------------------
(* flowkit/models/gates/gml_gates.py: GMLQuadrantGate *)

\* a divider element: id, the dimension it splits, its split points as listed
Divider(id, dimension_ref, values) ==
    [id |-> id, dimension_ref |-> dimension_ref, values |-> values]

\* a position element of a Quadrant element
Position(divider_ref, location) == [divider_ref |-> divider_ref, location |-> location]

\* a Quadrant element: id and position elements in document order
QuadrantEl(id, positions) == [id |-> id, positions |-> positions]

\* sorted(div.values): insertion of each value into the sorted prefix
RECURSIVE InsertSorted(_, _)
InsertSorted(s, v) ==
    IF s = <<>> THEN <<v>>
    ELSE IF v < Head(s) THEN <<v>> \o s
    ELSE <<Head(s)>> \o InsertSorted(Tail(s), v)

\* div.values iterated as listed, without sorted()
AsListed(s) == s

RECURSIVE Sorted(_)
Sorted(s) == IF s = <<>> THEN <<>> ELSE InsertSorted(Sorted(Tail(s)), Head(s))

\* v > location
PastLocation(v, location) == v > location

\* the loop "for v in sorted(div.values)" (lines 253-260) from position i:
\* the first value past the location becomes q_max and ends the loop, every
\* value before it becomes q_min in turn
RECURSIVE ScanValues(_, _, _, _)
ScanValues(vals, location, i, q) ==
    IF i > Len(vals) THEN q
    ELSE IF PastLocation(vals[i], location) THEN [q EXCEPT !.max = Some(vals[i])]
    ELSE ScanValues(vals, location, i + 1, [q EXCEPT !.min = Some(vals[i])])

\* the loop "for div in dividers" (lines 247-260) from divider i: dividers of
\* another id are skipped; q = [dim_label, min, max] carries over
RECURSIVE ScanDividers(_, _, _, _)
ScanDividers(dividers, pos, i, q) ==
    IF i > Len(dividers) THEN q
    ELSE IF dividers[i].id # pos.divider_ref THEN ScanDividers(dividers, pos, i + 1, q)
    ELSE ScanDividers(dividers, pos, i + 1,
             ScanValues(Sorted(dividers[i].values), pos.location, 1,
                        [q EXCEPT !.dim_label = Some(dividers[i].dimension_ref)]))

\* the loop over a Quadrant element's position elements (lines 237-275):
\* the list of the quadrant's ranges, or the ValueError of line 263
RECURSIVE QuadrantRanges(_, _, _, _)
QuadrantRanges(dividers, positions, i, acc) ==
    IF i > Len(positions) THEN Return(acc)
    ELSE LET q == ScanDividers(dividers, positions[i], 1,
                               [dim_label |-> None, min |-> None, max |-> None])
         IN  IF IsNone(q.dim_label) THEN Raise("ValueError")
             ELSE QuadrantRanges(dividers, positions, i + 1,
                      Append(acc, [divider |-> positions[i].divider_ref,
                                   dimension |-> The(q.dim_label),
                                   location |-> positions[i].location,
                                   min |-> q.min, max |-> q.max]))

\* the loop over the Quadrant elements (lines 228-275): quadrants[quad_id]
\* is assigned per element, a repeated id replacing the earlier entry
RECURSIVE ParseQuadrants(_, _, _, _)
ParseQuadrants(dividers, quadrant_els, i, quadrants) ==
    IF i > Len(quadrant_els) THEN Return(quadrants)
    ELSE LET r == QuadrantRanges(dividers, quadrant_els[i].positions, 1, <<>>)
             id == quadrant_els[i].id
         IN  IF Raised(r) THEN r
             ELSE ParseQuadrants(dividers, quadrant_els, i + 1,
                      [k \in (DOMAIN quadrants) \cup {id} |->
                          IF k = id THEN r.val ELSE quadrants[k]])

\* GMLQuadrantGate.__init__ on a parsed gate element
GMLQuadrantGate_init(el) ==
    IF Len(el.dividers) < 1 THEN Raise("ValueError")
    ELSE LET r == ParseQuadrants(el.dividers, el.quadrant_els, 1, <<>>)
         IN  IF Raised(r) THEN r
             ELSE Return([id |-> el.id, parent |-> el.parent,
                          dividers |-> el.dividers, quadrants |-> r.val])

\* one quadrant's mask for one event: the intersection over the quadrant's
\* ranges of min <= value < max on the range's dimension, an absent bound
\* not constraining
InQuadrant(ranges, row, labels) ==
    \A i \in DOMAIN ranges :
        LET v == row[Index(labels, ranges[i].dimension)]
        IN  /\ IsNone(ranges[i].min) \/ v >= The(ranges[i].min)
            /\ IsNone(ranges[i].max) \/ v < The(ranges[i].max)

\* the Quadrant gate's evaluation: one mask per declared quadrant id
QuadrantGate_apply(gate, evs, labels) ==
    IF \E q \in DOMAIN gate.quadrants : \E i \in DOMAIN gate.quadrants[q] :
           Index(labels, gate.quadrants[q][i].dimension) = 0
    THEN Raise("ValueError")
    ELSE Return([q \in DOMAIN gate.quadrants |->
                    [e \in DOMAIN evs |-> InQuadrant(gate.quadrants[q], evs[e], labels)]])

\* split-point lists: one or two distinct values in either order
ValueLists == {<<v>> : v \in Vals} \cup {<<v, w>> : <<v, w>> \in {p \in Vals \X Vals : p[1] # p[2]}}

\* quadrant locations: on a split point, between two, or below all of them
Locations == (0 - 1)..MaxVal

\* gate elements with one divider on X and one or two declared quadrants
OneDividerEls ==
    {[id |-> "Q", parent |-> None, dividers |-> <<Divider("D1", "X", vs)>>,
      quadrant_els |-> qs] :
        vs \in ValueLists,
        qs \in {<<QuadrantEl("Q1", <<Position("D1", l)>>)>> : l \in Locations}
               \cup {<<QuadrantEl("Q1", <<Position("D1", l)>>),
                       QuadrantEl("Q2", <<Position("D1", m)>>)>> : l \in Locations, m \in Locations}}

\* gate elements with a divider on X and one on Y, one split point each, and
\* the four quadrants around the crossing
TwoDividerEls ==
    {[id |-> "Q", parent |-> None,
      dividers |-> <<Divider("D1", "X", <<v>>), Divider("D2", "Y", <<w>>)>>,
      quadrant_els |->
          <<QuadrantEl("Q1", <<Position("D1", v - 1), Position("D2", w - 1)>>),
            QuadrantEl("Q2", <<Position("D1", v), Position("D2", w - 1)>>),
            QuadrantEl("Q3", <<Position("D1", v - 1), Position("D2", w)>>),
            QuadrantEl("Q4", <<Position("D1", v), Position("D2", w)>>)>>] :
        v \in Vals, w \in Vals}

\* gate elements the constructor rejects: no divider; a position naming no divider
RejectedEls ==
    {[id |-> "Q", parent |-> None, dividers |-> <<>>,
      quadrant_els |-> <<QuadrantEl("Q1", <<Position("D1", 0)>>)>>],
     [id |-> "Q", parent |-> None, dividers |-> <<Divider("D1", "X", <<0>>)>>,
      quadrant_els |-> <<QuadrantEl("Q1", <<Position("D9", 0)>>)>>]}

QuadrantGateEls == OneDividerEls \cup TwoDividerEls \cup RejectedEls

QuadInit ==
    /\ gates = <<>>
    /\ pnn_labels = <<"X", "Y">>
    /\ events \in EventSets
    /\ call = [op |-> "none", arg |-> None, again |-> FALSE]
    /\ ret = Return(<<>>)
    /\ first_ret = <<>>
    /\ EvalIdle

\* GMLQuadrantGate(gate_element, ...): the gate is kept when the constructor returns
QuadrantBuild(el) ==
    /\ call.op = "none"
    /\ call' = [op |-> "quadrant_init", arg |-> Some(el.id), again |-> FALSE]
    /\ ret' = GMLQuadrantGate_init(el)
    /\ gates' = IF Raised(ret') THEN gates ELSE (el.id :> ret'.val)
    /\ UNCHANGED <<pnn_labels, events, first_ret, eval_vars, batch_vars, session_vars>>

\* the built gate applied to the sample
QuadrantApply ==
    /\ call.op = "quadrant_init"
    /\ \E gid \in DOMAIN gates :
           /\ call' = [op |-> "quadrant_apply", arg |-> Some(gid), again |-> FALSE]
           /\ ret' = QuadrantGate_apply(gates[gid], events, pnn_labels)
    /\ UNCHANGED <<gates, pnn_labels, events, first_ret, eval_vars, batch_vars, session_vars>>

QuadNext ==
    \/ \E el \in QuadrantGateEls : QuadrantBuild(el)
    \/ QuadrantApply

-----------------------------------------------------------------------------
(* session.py: _gate_sample and _gate_samples *)

\* gating_strategy.gate_sample(sample, verbose=verbose) of the Session's
\* GatingStrategy: every gate of the strategy is applied to the sample's
\* events; the first gate that raises ends the evaluation with its
\* exception; otherwise the GatingResults hold the sample id, each gate's own
\* mask and the report's count per gate (events inside the gate and inside
\* every ancestor of it).
RECURSIVE InGatePath(_, _, _, _)
InGatePath(gs, masks, g, e) ==
    /\ masks[g][e]
    /\ (IsNone(gs[g].parent) \/ The(gs[g].parent) \notin DOMAIN gs
          \/ InGatePath(gs, masks, The(gs[g].parent), e))

gate_sample_results(gs, sample) ==
    LET applied == [g \in DOMAIN gs |-> RectangleGate_apply(gs[g], sample.events, sample.pnn_labels)]
        masks == [g \in DOMAIN gs |-> applied[g].val]
    IN  IF \E g \in DOMAIN gs : Raised(applied[g])
        THEN Raise(applied[CHOOSE g \in DOMAIN gs : Raised(applied[g])].exc)
        ELSE Return([sample_id |-> sample.sample_id,
                     masks |-> masks,
                     report |-> [g \in DOMAIN gs |->
                         Cardinality({e \in DOMAIN sample.events : InGatePath(gs, masks, g, e)})]])

\* _gate_sample(data): data = (gating_strategy, sample, verbose)
gate_sample_wrapper(data) == gate_sample_results(data[1], data[2])

\* the condition of line 44
TakesPoolPathAnyCount(mp_available, sample_count, u) == mp_available /\ sample_count > 0 /\ u
TakesPoolPath(mp_available, sample_count, u) == mp_available /\ sample_count > 1 /\ u

\* lines 45-48
ProcCountOffByOne(sample_count, cpus) == IF sample_count <= cpus THEN sample_count ELSE cpus - 1
ProcCount(sample_count, cpus) == IF sample_count < cpus THEN sample_count ELSE cpus - 1

\* Pool.map's chunking: chunksize, extra = divmod(len(iterable), len(pool) * 4)
ChunkSize(n, procs) ==
    IF n = 0 THEN 0
    ELSE (n \div (procs * 4)) + (IF n % (procs * 4) # 0 THEN 1 ELSE 0)
NumChunks(n, cs) == IF cs = 0 THEN 0 ELSE (n \div cs) + (IF n % cs # 0 THEN 1 ELSE 0)
ChunkItems(c, cs, n) == {i \in 1..n : (c - 1) * cs < i /\ i <= c * cs}

\* a worker runs its chunk's items in order; the first item that raises ends the chunk
ChunkFailure(c, cs, data) ==
    LET items == ChunkItems(c, cs, Len(data))
        bad == {i \in items : Raised(gate_sample_wrapper(data[i]))}
    IN  IF bad = {} THEN 0 ELSE CHOOSE i \in bad : \A j \in bad : i <= j

\* MapResult._set on success: self._value[i*chunksize:(i+1)*chunksize] = result
MapResult_set(value, c, cs, data) ==
    [k \in DOMAIN value |->
        IF k \in ChunkItems(c, cs, Len(data))
        THEN Some(gate_sample_wrapper(data[k]).val)
        ELSE value[k]]

\* data = [(gating_strategies[i], sample, verbose) for i, sample in enumerate(samples)]
DataFirstStrategy == [i \in DOMAIN samples |-> <<gating_strategies[1], samples[i]>>]
Data == [i \in DOMAIN samples |-> <<gating_strategies[i], samples[i]>>]

Paths == {"pool", "loop"}
NoOutcome == [kind |-> "none", exc |-> "none", unit |-> 0, val |-> <<>>]
Returned(v) == [kind |-> "returned", exc |-> "none", unit |-> 0, val |-> v]
RaisedBy(e, i) == [kind |-> "raised", exc |-> e, unit |-> i, val |-> <<>>]

\* the samples the units are made of, told apart by their ids
EventsA == <<<<0, 0>>, <<MaxVal, 0>>>>
EventsB == <<<<0, MaxVal>>, <<0, 0>>>>
BatchSample(i) ==
    [sample_id |-> i, events |-> IF i % 2 = 1 THEN EventsA ELSE EventsB,
     pnn_labels |-> <<"X", "Y">>]

\* the strategies: one that evaluates, one whose gate has no bound and raises
StrategyOk ==
    GatingStrategy_init(<<Gate("G1", None, <<Dimension("X", Some(0), Some(MaxVal))>>),
                          Gate("G2", Some("G1"), <<Dimension("Y", None, Some(MaxVal))>>)>>).val
StrategyBad ==
    GatingStrategy_init(<<Gate("G1", None, <<Dimension("X", None, None)>>)>>).val
UnitStrategies == {StrategyOk, StrategyBad}

\* no call of _gate_samples in progress and none made
BatchMachineIdle ==
    /\ b_pc = "idle" /\ pool_requested = FALSE /\ proc_count = 0
    /\ workers = <<>> /\ next_chunk = 0 /\ map_value = <<>> /\ map_success = TRUE
    /\ map_exc = NoOutcome /\ number_left = 0 /\ loop_i = 0 /\ all_results = <<>>
    /\ evaluated_by = <<>> /\ finish_order = <<>>
    /\ outcomes = [p \in Paths |-> NoOutcome]

BatchParked ==
    /\ gating_strategies = <<>> /\ samples = <<>>
    /\ multi_proc = FALSE /\ cpu_count = 1 /\ use_mp = FALSE
    /\ BatchMachineIdle

BatchInit ==
    /\ \E n \in 0..MaxSamples :
          /\ gating_strategies \in [1..n -> UnitStrategies]
          /\ samples = [i \in 1..n |-> BatchSample(i)]
    /\ multi_proc \in BOOLEAN
    /\ cpu_count \in 1..MaxCpu
    /\ use_mp = FALSE
    /\ BatchMachineIdle

\* _gate_samples(gating_strategies, samples, verbose, use_mp=u) is entered
\* (lines 43-50): the path is chosen; on the pool path proc_count is computed
\* and the pool requested, and Pool raises ValueError for processes < 1
GateSamplesCall(u) ==
    LET sample_count == Len(samples)
        pool_path == TakesPoolPath(multi_proc, sample_count, u)
        procs == ProcCount(sample_count, cpu_count)
        cs == ChunkSize(sample_count, procs)
    IN  /\ b_pc = "idle"
        /\ outcomes[IF pool_path THEN "pool" ELSE "loop"] = NoOutcome
        /\ use_mp' = u
        /\ pool_requested' = pool_path
        /\ proc_count' = IF pool_path THEN procs ELSE 0
        /\ evaluated_by' = <<>>
        /\ finish_order' = <<>>
        /\ map_success' = TRUE
        /\ map_exc' = NoOutcome
        /\ all_results' = <<>>
        /\ IF pool_path /\ procs < 1
           THEN /\ b_pc' = "idle"
                /\ outcomes' = [outcomes EXCEPT !["pool"] = RaisedBy("ValueError", 0)]
                /\ workers' = <<>> /\ next_chunk' = 0 /\ map_value' = <<>>
                /\ number_left' = 0 /\ loop_i' = 0
           ELSE IF pool_path
           THEN /\ b_pc' = "pool"
                /\ workers' = [w \in 1..procs |-> 0]
                /\ next_chunk' = 1
                /\ map_value' = [i \in 1..sample_count |-> None]
                /\ number_left' = NumChunks(sample_count, cs)
                /\ loop_i' = 0
                /\ UNCHANGED outcomes
           ELSE /\ b_pc' = "loop"
                /\ loop_i' = 1
                /\ workers' = <<>> /\ next_chunk' = 0 /\ map_value' = <<>>
                /\ number_left' = 0
                /\ UNCHANGED outcomes
        /\ UNCHANGED <<batch_in, gate_vars, session_vars>>

\* an idle pool worker takes the next chunk off the task queue
WorkerTake(w) ==
    LET cs == ChunkSize(Len(samples), proc_count)
    IN  /\ b_pc = "pool"
        /\ workers[w] = 0
        /\ next_chunk <= NumChunks(Len(samples), cs)
        /\ workers' = [workers EXCEPT ![w] = next_chunk]
        /\ next_chunk' = next_chunk + 1
        /\ UNCHANGED <<gate_vars, session_vars, batch_in, use_mp, b_pc, pool_requested, proc_count, map_value,
                       map_success, map_exc, number_left, loop_i, all_results,
                       evaluated_by, finish_order, outcomes>>

\* a worker finishes its chunk (_gate_sample on each item) and the pool's
\* result handler hands the chunk's outcome to MapResult._set
WorkerFinish(w) ==
    LET cs == ChunkSize(Len(samples), proc_count)
        c == workers[w]
        bad == ChunkFailure(c, cs, Data)
        ran == {i \in ChunkItems(c, cs, Len(samples)) : bad = 0 \/ i <= bad}
    IN  /\ b_pc = "pool"
        /\ c # 0
        /\ workers' = [workers EXCEPT ![w] = 0]
        /\ evaluated_by' = [i \in DOMAIN evaluated_by \cup ran |->
                               IF i \in ran THEN "worker" ELSE evaluated_by[i]]
        /\ finish_order' = Append(finish_order, c)
        /\ number_left' = number_left - 1
        /\ IF bad = 0 /\ map_success
           THEN /\ map_value' = MapResult_set(map_value, c, cs, Data)
                /\ UNCHANGED <<map_success, map_exc>>
           ELSE IF bad # 0 /\ map_success
           THEN /\ map_success' = FALSE
                /\ map_exc' = RaisedBy(gate_sample_wrapper(Data[bad]).exc, bad)
                /\ UNCHANGED map_value
           ELSE UNCHANGED <<map_value, map_success, map_exc>>
        /\ UNCHANGED <<gate_vars, session_vars, batch_in, use_mp, b_pc, pool_requested, proc_count, next_chunk,
                       loop_i, all_results, outcomes>>

\* pool.map returns once every chunk is done (line 52): the list, or the
\* first exception that arrived; then close, join and return (lines 54-62)
PoolMapReturn ==
    /\ b_pc = "pool"
    /\ number_left = 0
    /\ b_pc' = "idle"
    /\ IF map_success
       THEN /\ all_results' = [i \in DOMAIN map_value |-> The(map_value[i])]
            /\ outcomes' = [outcomes EXCEPT !["pool"] = Returned(all_results')]
       ELSE /\ all_results' = <<>>
            /\ outcomes' = [outcomes EXCEPT !["pool"] = map_exc]
    /\ UNCHANGED <<gate_vars, session_vars, batch_in, use_mp, pool_requested, proc_count, workers, next_chunk,
                   map_value, map_success, map_exc, number_left, loop_i,
                   evaluated_by, finish_order>>

\* one iteration of the for loop (lines 58-60), in the calling process
LoopStep ==
    LET results == gate_sample_results(gating_strategies[loop_i], samples[loop_i])
    IN  /\ b_pc = "loop"
        /\ loop_i <= Len(samples)
        /\ evaluated_by' = (loop_i :> "caller") @@ evaluated_by
        /\ IF Raised(results)
           THEN /\ b_pc' = "idle"
                /\ outcomes' = [outcomes EXCEPT !["loop"] = RaisedBy(results.exc, loop_i)]
                /\ all_results' = <<>>
                /\ UNCHANGED loop_i
           ELSE /\ all_results' = Append(all_results, results.val)
                /\ loop_i' = loop_i + 1
                /\ UNCHANGED <<b_pc, outcomes>>
        /\ UNCHANGED <<gate_vars, session_vars, batch_in, use_mp, pool_requested, proc_count, workers, next_chunk,
                       map_value, map_success, map_exc, number_left, finish_order>>

\* the loop is over: return all_results (line 62)
LoopReturn ==
    /\ b_pc = "loop"
    /\ loop_i > Len(samples)
    /\ b_pc' = "idle"
    /\ outcomes' = [outcomes EXCEPT !["loop"] = Returned(all_results)]
    /\ UNCHANGED <<gate_vars, session_vars, batch_in, use_mp, pool_requested, proc_count, workers, next_chunk,
                   map_value, map_success, map_exc, number_left, loop_i, all_results,
                   evaluated_by, finish_order>>

\* every way _gate_samples(strategies, smpls, verbose, use_mp=u) can end, as
\* one step: on the pool path the exception that leaves pool.map is the one
\* of whichever failing chunk finished first; the loop raises the first
\* failure in list order
GateSamplesOutcomes(strategies, smpls, u, mp_available, cpus) ==
    LET n == Len(smpls)
        data == [i \in 1..n |-> <<strategies[i], smpls[i]>>]
        procs == ProcCount(n, cpus)
        cs == ChunkSize(n, procs)
        bad == {i \in 1..n : Raised(gate_sample_wrapper(data[i]))}
        list == [i \in 1..n |-> gate_sample_wrapper(data[i]).val]
    IN  IF TakesPoolPath(mp_available, n, u)
        THEN IF procs < 1 THEN {RaisedBy("ValueError", 0)}
             ELSE IF bad = {} THEN {Returned(list)}
             ELSE {RaisedBy(gate_sample_wrapper(data[ChunkFailure(c, cs, data)]).exc,
                            ChunkFailure(c, cs, data)) :
                      c \in {k \in 1..NumChunks(n, cs) : ChunkFailure(k, cs, data) # 0}}
        ELSE IF bad = {} THEN {Returned(list)}
             ELSE LET i == CHOOSE k \in bad : \A j \in bad : k <= j
                  IN  {RaisedBy(gate_sample_wrapper(data[i]).exc, i)}

BatchNext ==
    \/ \E u \in BOOLEAN : GateSamplesCall(u)
    \/ \E w \in DOMAIN workers : WorkerTake(w)
    \/ \E w \in DOMAIN workers : WorkerFinish(w)
    \/ PoolMapReturn
    \/ LoopStep
    \/ LoopReturn

-----------------------------------------------------------------------------
(* session.py: Session *)

SampleIds == {"a.fcs", "b.fcs"}
GroupNames == {"default", "wsp"}

\* the Sample instances: a.fcs has channels X, Y and b.fcs has channels X, Z
SessionSample(sid) ==
    [sample_id |-> sid,
     events |-> IF sid = "a.fcs" THEN EventsA ELSE EventsB,
     pnn_labels |-> IF sid = "a.fcs" THEN <<"X", "Y">> ELSE <<"X", "Z">>]

\* the gates: G1 on X, which workspaces and strategy instances come with,
\* and G2 on Z, which callers add and which no sample without a Z channel
\* can be evaluated with
GateOnX == Gate("G1", None, <<Dimension("X", Some(0), Some(MaxVal))>>)
GateOnZ == Gate("G2", None, <<Dimension("Z", Some(0), None)>>)
SessionGates == {GateOnZ}

\* the last call on the Session: its name, group argument and further
\* argument (a sample id or gate id), how it ended, and for analyze_samples
\* the unit that failed, the samples evaluated and the samples the group
\* had stored results for when the call was made
NoCall ==
    [op |-> "none", group |-> "none", arg |-> None, exc |-> "none", unit |-> "none",
     selected |-> {}, had |-> {}]
Called(op, group, exc) == [NoCall EXCEPT !.op = op, !.group = group, !.exc = exc]
CalledWith(op, group, arg, exc) == [Called(op, group, exc) EXCEPT !.arg = arg]

SessionParked ==
    /\ sample_lut = <<>> /\ sample_group_lut = <<>> /\ heap = <<>>
    /\ results_lut = <<>> /\ last = NoCall

\* a dict with insertion order: the keys in order, and the values
EmptyDict == [order |-> <<>>, at |-> <<>>]
DictSet(d, k, v) ==
    IF k \in DOMAIN d.at THEN [d EXCEPT !.at[k] = v]
    ELSE [order |-> Append(d.order, k), at |-> d.at @@ (k :> v)]

\* the object a new GatingStrategy gets; objects are numbered as they are made
NewObj(h) == Cardinality(DOMAIN h) + 1
Alloc(h, content) == h @@ (NewObj(h) :> content)

\* GatingStrategy.add_gate: a gate whose path is already in the strategy is
\* refused, otherwise the gate is added
strategy_add_gate(gs, gate) ==
    IF gate.id \in DOMAIN gs THEN Raise("KeyError") ELSE Return(gs @@ (gate.id :> gate))

\* the Session's three dicts, threaded through the handlers
SessionState == [lut |-> sample_lut, groups |-> sample_group_lut, heap |-> heap]

\* add_sample_group (lines 97-116) with a strategy object already in hand
\* (None and a GatingML path both give a new object, an instance is kept)
AddGroupWith(S, group_name, obj) ==
    IF group_name \in DOMAIN S.groups THEN S
    ELSE [S EXCEPT !.groups = @ @@ (group_name :> [template |-> obj, samples |-> EmptyDict])]

\* assign_sample handing the template itself to the sample, without deepcopy
AssignSampleSharing(S, sample_id, group_name) ==
    LET group == S.groups[group_name]
    IN  IF sample_id \in DOMAIN group.samples.at THEN S
        ELSE [S EXCEPT !.groups[group_name].samples = DictSet(@, sample_id, group.template)]

\* assign_sample (lines 208-213) when the group exists: deepcopy makes a new
\* object holding the template's content
AssignSample(S, sample_id, group_name) ==
    LET group == S.groups[group_name]
    IN  IF sample_id \in DOMAIN group.samples.at THEN S
        ELSE [S EXCEPT !.heap = Alloc(@, S.heap[group.template]),
                       !.groups[group_name].samples = DictSet(@, sample_id, NewObj(S.heap))]

\* the loop of add_samples (lines 187-198) from position i
RECURSIVE AddSamplesFrom(_, _, _)
AddSamplesFrom(S, new_samples, i) ==
    IF i > Len(new_samples) THEN S
    ELSE LET sid == new_samples[i]
         IN  IF sid \in DOMAIN S.lut /\ S.lut[sid] # "None"
             THEN AddSamplesFrom(S, new_samples, i + 1)
             ELSE AddSamplesFrom(
                      AssignSample([S EXCEPT !.lut = (sid :> "Sample") @@ @], sid, "default"),
                      new_samples, i + 1)

\* the inner loop of import_flowjo_workspace (lines 154-176) from position i
\* of one workspace group's samples: a new GatingStrategy per sample, which
\* becomes the group's template when the group is new, and the sample's
\* strategy in any case
RECURSIVE ImportFrom(_, _, _, _, _)
ImportFrom(S, group_name, wsp_samples, wsp_gates, i) ==
    IF i > Len(wsp_samples) THEN S
    ELSE LET sid == wsp_samples[i]
             S1 == IF sid \in DOMAIN S.lut THEN S ELSE [S EXCEPT !.lut = @ @@ (sid :> "None")]
             gs == NewObj(S1.heap)
             S2 == [S1 EXCEPT !.heap = Alloc(@, wsp_gates)]
             S3 == AddGroupWith(S2, group_name, gs)
             S4 == [S3 EXCEPT !.groups[group_name].samples = DictSet(@, sid, gs)]
         IN  ImportFrom(S4, group_name, wsp_samples, wsp_gates, i + 1)

\* add_gate leaving the sample strategies out: only the template is changed
AddGateFromNone(h, objs, gate, i) == [heap |-> h, exc |-> "none"]

\* the loop of add_gate over the group's sample strategies (lines 308-309)
\* from position i: the first strategy that refuses the gate ends the call
\* with what was added so far
RECURSIVE AddGateFrom(_, _, _, _)
AddGateFrom(h, objs, gate, i) ==
    IF i > Len(objs) THEN [heap |-> h, exc |-> "none"]
    ELSE LET r == strategy_add_gate(h[objs[i]], gate)
         IN  IF Raised(r) THEN [heap |-> h, exc |-> r.exc]
             ELSE AddGateFrom([h EXCEPT ![objs[i]] = r.val], objs, gate, i + 1)

\* get_sample_ids(loaded_only=True) (lines 224-229)
LoadedSampleIds == {k \in DOMAIN sample_lut : sample_lut[k] = "Sample"}

\* get_group_sample_ids (lines 253-260): with loaded_only the group's ids
\* are united with the loaded ids
GroupSampleIds(group_name, loaded_only) ==
    IF loaded_only
    THEN DOMAIN sample_group_lut[group_name].samples.at \cup LoadedSampleIds
    ELSE DOMAIN sample_group_lut[group_name].samples.at

\* get_group_samples (lines 270-278): sample_lut[s_id] for every listed id,
\* a KeyError when an id is not in sample_lut; the entry per id stands for
\* the list, whose order is the set's
GroupSamples(group_name) ==
    LET ids == GroupSampleIds(group_name, TRUE)
    IN  IF \E k \in ids : k \notin DOMAIN sample_lut THEN Raise("KeyError")
        ELSE Return([k \in ids |-> sample_lut[k]])

\* the lists a set can be turned into by list(set(...))
ListsOf(ids) == {q \in [1..Cardinality(ids) -> ids] : \A i, j \in DOMAIN q : i # j => q[i] # q[j]}

\* for s in samples: skip None (lines 566-571)
RECURSIVE SkipNone(_, _)
SkipNone(ids, i) ==
    IF i > Len(ids) THEN <<>>
    ELSE IF sample_lut[ids[i]] = "None" THEN SkipNone(ids, i + 1)
    ELSE <<ids[i]>> \o SkipNone(ids, i + 1)

Range(q) == {q[i] : i \in DOMAIN q}

\* lines 575-582: what _results_lut is after _gate_samples ended with outcome o
StoreResultsClearing(rl, group_name, o) ==
    IF o.kind = "raised" THEN [g \in DOMAIN rl \ {group_name} |-> rl[g]]
    ELSE (group_name :> [report |-> [i \in DOMAIN o.val |-> <<o.val[i].sample_id, o.val[i].report>>],
                         samples |-> [sid \in {o.val[i].sample_id : i \in DOMAIN o.val} |->
                                         o.val[CHOOSE i \in DOMAIN o.val : o.val[i].sample_id = sid]]])
         @@ rl
\* lines 575-582 keeping the group's earlier entry and adding to it
StoreResultsMerging(rl, group_name, o) ==
    IF o.kind = "raised" THEN rl
    ELSE LET old == IF group_name \in DOMAIN rl THEN rl[group_name]
                    ELSE [report |-> <<>>, samples |-> <<>>]
         IN  (group_name :>
                 [report |-> old.report \o [i \in DOMAIN o.val |-> <<o.val[i].sample_id, o.val[i].report>>],
                  samples |-> [sid \in {o.val[i].sample_id : i \in DOMAIN o.val} |->
                                  o.val[CHOOSE i \in DOMAIN o.val : o.val[i].sample_id = sid]]
                              @@ old.samples])
             @@ rl

StoreResults(rl, group_name, o) ==
    IF o.kind = "raised" THEN rl
    ELSE (group_name :> [report |-> [i \in DOMAIN o.val |-> <<o.val[i].sample_id, o.val[i].report>>],
                         samples |-> [sid \in {o.val[i].sample_id : i \in DOMAIN o.val} |->
                                         o.val[CHOOSE i \in DOMAIN o.val : o.val[i].sample_id = sid]]])
         @@ rl

\* Session() with no samples (lines 78-85): the 'default' group with a new,
\* blank template; run outside a debugger (use_mp, lines 21-26) on a machine
\* with multi-processing and MaxCpu CPUs
SessionInit ==
    /\ sample_lut = <<>>
    /\ heap = (1 :> <<>>)
    /\ sample_group_lut = ("default" :> [template |-> 1, samples |-> EmptyDict])
    /\ results_lut = <<>>
    /\ last = NoCall
    /\ multi_proc = TRUE /\ cpu_count = MaxCpu /\ use_mp = TRUE
    /\ gating_strategies = <<>> /\ samples = <<>>
    /\ BatchMachineIdle

SetSession(S) ==
    /\ sample_lut' = S.lut
    /\ sample_group_lut' = S.groups
    /\ heap' = S.heap

\* add_sample_group(group_name, gating_strategy): gating_strategy is None
\* (with_gates empty) or a GatingStrategy holding with_gates
add_sample_group(group_name, with_gates) ==
    /\ NewObj(heap) <= MaxObj
    /\ IF group_name \in DOMAIN sample_group_lut
       THEN UNCHANGED <<sample_lut, sample_group_lut, heap>>
       ELSE SetSession(AddGroupWith([SessionState EXCEPT !.heap = Alloc(@, with_gates)],
                                    group_name, NewObj(heap)))
    /\ last' = Called("add_sample_group", group_name, "none")
    /\ UNCHANGED <<results_lut, gate_vars, batch_vars>>

\* add_samples(samples): the ids of the Sample instances load_samples returns
add_samples(new_samples) ==
    /\ NewObj(heap) + Len(new_samples) - 1 <= MaxObj
    /\ SetSession(AddSamplesFrom(SessionState, new_samples, 1))
    /\ last' = Called("add_samples", "default", "none")
    /\ UNCHANGED <<results_lut, gate_vars, batch_vars>>

\* assign_sample(sample_id, group_name)
assign_sample(sample_id, group_name) ==
    /\ NewObj(heap) <= MaxObj
    /\ IF group_name \notin DOMAIN sample_group_lut
       THEN /\ last' = CalledWith("assign_sample", group_name, Some(sample_id), "KeyError")
            /\ UNCHANGED <<sample_lut, sample_group_lut, heap>>
       ELSE /\ last' = CalledWith("assign_sample", group_name, Some(sample_id), "none")
            /\ SetSession(AssignSample(SessionState, sample_id, group_name))
    /\ UNCHANGED <<results_lut, gate_vars, batch_vars>>

\* import_flowjo_workspace(workspace): parse_wsp gives one group with the
\* samples wsp_samples, each with the gates wsp_gates
import_flowjo_workspace(group_name, wsp_samples, wsp_gates) ==
    /\ NewObj(heap) + Len(wsp_samples) - 1 <= MaxObj
    /\ SetSession(ImportFrom(SessionState, group_name, wsp_samples, wsp_gates, 1))
    /\ last' = Called("import_flowjo_workspace", group_name, "none")
    /\ UNCHANGED <<results_lut, gate_vars, batch_vars>>

\* add_gate(gate, group_name=group_name)
add_gate(gate, group_name) ==
    /\ IF group_name \notin DOMAIN sample_group_lut
       THEN /\ last' = CalledWith("add_gate", group_name, Some(gate.id), "KeyError")
            /\ UNCHANGED heap
       ELSE LET group == sample_group_lut[group_name]
                t == strategy_add_gate(heap[group.template], gate)
                objs == [i \in DOMAIN group.samples.order |-> group.samples.at[group.samples.order[i]]]
                done == AddGateFrom([heap EXCEPT ![group.template] = t.val], objs, gate, 1)
            IN  IF Raised(t)
                THEN /\ last' = CalledWith("add_gate", group_name, Some(gate.id), t.exc)
                     /\ UNCHANGED heap
                ELSE /\ last' = CalledWith("add_gate", group_name, Some(gate.id), done.exc)
                     /\ heap' = done.heap
    /\ UNCHANGED <<sample_lut, sample_group_lut, results_lut, gate_vars, batch_vars>>

\* the samples _results_lut holds results for under a group
StoredSampleIds(rl, group_name) ==
    IF group_name \in DOMAIN rl THEN DOMAIN rl[group_name].samples ELSE {}

\* analyze_samples(group_name, sample_id) ended without running anything:
\* a warning and a return (exc "none"), or an exception before _gate_samples
AnalyzeEnds(group_name, sample_id, exc) ==
    /\ last' = [CalledWith("analyze_samples", group_name, sample_id, exc)
                   EXCEPT !.had = StoredSampleIds(results_lut, group_name)]
    /\ UNCHANGED results_lut

\* analyze_samples ran _gate_samples on to_run, which ended with outcome o
AnalyzeRan(group_name, sample_id, to_run, o) ==
    IF o.kind = "returned" /\ to_run = <<>>
    THEN AnalyzeEnds(group_name, sample_id, "ValueError")
    ELSE /\ last' = [op |-> "analyze_samples", group |-> group_name,
                     arg |-> sample_id,
                     exc |-> o.exc,
                     unit |-> IF o.unit = 0 THEN "none" ELSE to_run[o.unit],
                     selected |-> Range(to_run),
                     had |-> StoredSampleIds(results_lut, group_name)]
         /\ results_lut' = StoreResults(results_lut, group_name, o)

\* analyze_samples(group_name, sample_id): sample_id is None or an id.
\* KeyError: the group is unknown (line 253), a listed id is not in
\* sample_lut (line 275), or a loaded sample is not in the group (line 570);
\* ValueError: pd.concat of no report (line 578)
analyze_samples(group_name, sample_id) ==
    /\ UNCHANGED <<sample_lut, sample_group_lut, heap, gate_vars, batch_vars>>
    /\ IF group_name \notin DOMAIN sample_group_lut
       THEN AnalyzeEnds(group_name, sample_id, "KeyError")
       ELSE LET ids == GroupSampleIds(group_name, TRUE)
                members == sample_group_lut[group_name].samples.at
            IN  IF \E k \in ids : k \notin DOMAIN sample_lut
                THEN AnalyzeEnds(group_name, sample_id, "KeyError")
                ELSE IF ids = {} \/ (~IsNone(sample_id) /\ The(sample_id) \notin ids)
                THEN AnalyzeEnds(group_name, sample_id, "none")
                ELSE \E listed \in (IF IsNone(sample_id) THEN ListsOf(ids) ELSE {<<The(sample_id)>>}) :
                       LET to_run == SkipNone(listed, 1)
                       IN  IF \E i \in DOMAIN to_run : to_run[i] \notin DOMAIN members
                           THEN AnalyzeEnds(group_name, sample_id, "KeyError")
                           ELSE \E o \in GateSamplesOutcomes(
                                            [i \in DOMAIN to_run |-> heap[members[to_run[i]]]],
                                            [i \in DOMAIN to_run |-> SessionSample(to_run[i])],
                                            use_mp, multi_proc, cpu_count) :
                                  AnalyzeRan(group_name, sample_id, to_run, o)

\* the gates of a workspace's samples, and of a strategy instance
WspGates == ("G1" :> GateOnX)
SampleLists == {<<"a.fcs">>, <<"a.fcs", "b.fcs">>}

SessionNext ==
    \/ \E g \in GroupNames, c \in {<<>>, WspGates} : add_sample_group(g, c)
    \/ \E l \in SampleLists : add_samples(l)
    \/ \E sid \in SampleIds, g \in GroupNames : assign_sample(sid, g)
    \/ \E g \in GroupNames, l \in SampleLists : import_flowjo_workspace(g, l, WspGates)
    \/ \E gate \in SessionGates, g \in GroupNames : add_gate(gate, g)
    \/ \E g \in GroupNames, sid \in Opt(SampleIds) : analyze_samples(g, sid)

-----------------------------------------------------------------------------
(* gml_gates.py: GMLBooleanGate, and the strategy that evaluates it *)

\* a gateReference element: the optional ref and use-as-complement attributes
GateReferenceEl(ref, complement) == [ref |-> ref, complement |-> complement]

\* a BooleanGate element: its and, or and not child elements in document
\* order, each a list of gateReference elements
BooleanEl(id, parent, and_els, or_els, not_els) ==
    [id |-> id, parent |-> parent, and_els |-> and_els, or_els |-> or_els, not_els |-> not_els]

IsBooleanEl(el) == "and_els" \in DOMAIN el
IsBoolean(g) == "gate_refs" \in DOMAIN g

\* the loop over the gateReference elements (lines 344-362)
RECURSIVE ParseGateRefs(_, _, _)
ParseGateRefs(gate_ref_els, i, gate_refs) ==
    IF i > Len(gate_ref_els) THEN Return(gate_refs)
    ELSE IF IsNone(gate_ref_els[i].ref) THEN Raise("ValueError")
    ELSE ParseGateRefs(gate_ref_els, i + 1,
             Append(gate_refs,
                    [ref |-> The(gate_ref_els[i].ref),
                     complement |-> IF ~IsNone(gate_ref_els[i].complement)
                                    THEN The(gate_ref_els[i].complement) = "true"
                                    ELSE FALSE]))

\* BooleanGate.__init__(gate_id, parent_id, dimensions, bool_type, gate_refs,
\* gating_strategy): the gate holds its operator and its operands
BooleanGate_init(gate_id, parent_id, bool_type, gate_refs) ==
    Return([id |-> gate_id, parent |-> parent_id, type |-> bool_type, gate_refs |-> gate_refs])

\* GMLBooleanGate.__init__ on a parsed gate element (lines 323-371): the
\* first and element, else the first or element, else the first not element
\* gives the operator and the references
GMLBooleanGate_init(el) ==
    LET op == IF Len(el.and_els) > 0 THEN <<"and", el.and_els[1]>>
              ELSE IF Len(el.or_els) > 0 THEN <<"or", el.or_els[1]>>
              ELSE IF Len(el.not_els) > 0 THEN <<"not", el.not_els[1]>>
              ELSE <<"none", <<>>>>
    IN  IF op[1] = "none" THEN Raise("ValueError")
        ELSE LET r == ParseGateRefs(op[2], 1, <<>>)
             IN  IF Raised(r) THEN r
                 ELSE BooleanGate_init(el.id, el.parent, op[1], r.val)

\* the path of the gate with this id: the ids of its ancestors, then its own
RECURSIVE PathOfId(_, _, _)
PathOfId(doc, id, depth) ==
    IF depth = 0 \/ ~\E i \in DOMAIN doc : doc[i].id = id THEN <<id>>
    ELSE LET el == doc[CHOOSE i \in DOMAIN doc :
                          doc[i].id = id /\ \A j \in 1..(i - 1) : doc[j].id # id]
         IN  IF IsNone(el.parent) THEN <<id>>
             ELSE PathOfId(doc, The(el.parent), depth - 1) \o <<id>>

GatePath(doc, el) ==
    IF IsNone(el.parent) THEN <<el.id>>
    ELSE PathOfId(doc, The(el.parent), Len(doc)) \o <<el.id>>

\* the strategy built from a document: gates keyed by path, in document
\* order; a gate constructor's error and a repeated path end the build
RECURSIVE BuildStrategy(_, _, _)
BuildStrategy(doc, i, gs) ==
    IF i > Len(doc) THEN Return(gs)
    ELSE LET g == IF IsBooleanEl(doc[i]) THEN GMLBooleanGate_init(doc[i]) ELSE Return(doc[i])
             path == GatePath(doc, doc[i])
         IN  IF Raised(g) THEN g
             ELSE IF path \in DOMAIN gs.at THEN Raise("ConfigurationError")
             ELSE BuildStrategy(doc, i + 1, DictSet(gs, path, g.val))

\* the paths a bare gate id names
RefMatches(gs, id) == {p \in DOMAIN gs.at : p[Len(p)] = id}

ParentPath(p) == SubSeq(p, 1, Len(p) - 1)

\* the resolution of a Boolean gate's references: "none" when every
\* reference names exactly one gate of the strategy
ResolutionError(gs, p) ==
    LET g == gs.at[p]
    IN  IF ~IsBoolean(g) THEN "none"
        ELSE IF \E i \in DOMAIN g.gate_refs : RefMatches(gs, g.gate_refs[i].ref) = {}
        THEN "UnresolvedGateReference"
        ELSE IF \E i \in DOMAIN g.gate_refs : Cardinality(RefMatches(gs, g.gate_refs[i].ref)) > 1
        THEN "AmbiguousGateId"
        ELSE "none"

\* the gates that must be completed before the gate at p: its parent and
\* every gate it references
Dependencies(gs, p) ==
    (IF Len(p) > 1 /\ ParentPath(p) \in DOMAIN gs.at THEN {ParentPath(p)} ELSE {})
    \cup (IF IsBoolean(gs.at[p])
          THEN UNION {RefMatches(gs, gs.at[p].gate_refs[i].ref) : i \in DOMAIN gs.at[p].gate_refs}
          ELSE {})

\* the Boolean gate's predicate over the completed masks of its operands
BooleanGate_apply(g, gs, done, evs) ==
    LET n == Len(g.gate_refs)
        operand(i, e) ==
            LET v == done[CHOOSE p \in RefMatches(gs, g.gate_refs[i].ref) : TRUE][e]
            IN  IF g.gate_refs[i].complement THEN ~v ELSE v
    IN  IF (g.type = "not" /\ n # 1) \/ (g.type \in {"and", "or"} /\ n = 0)
        THEN Raise("InvalidOperandCount")
        ELSE Return([e \in DOMAIN evs |->
                        CASE g.type = "and" -> \A i \in 1..n : operand(i, e)
                          [] g.type = "or" -> \E i \in 1..n : operand(i, e)
                          [] OTHER -> ~operand(1, e)])

\* the report's count for a path: the events inside the gate and inside
\* every ancestor of it
PathCount(done, p, evs) ==
    Cardinality({e \in DOMAIN evs :
        \A k \in 1..Len(p) : SubSeq(p, 1, k) \in DOMAIN done => done[SubSeq(p, 1, k)][e]})

\* GatingResults.get_gate_indices(gate_id, gate_path): the mask of the one
\* path the arguments name
GatingResults_get_gate_indices(res, gate_id, gate_path) ==
    LET matches == {p \in DOMAIN res.masks :
                       p[Len(p)] = gate_id /\ (IsNone(gate_path) \/ p = The(gate_path))}
    IN  IF matches = {} THEN Raise("UnknownGate")
        ELSE IF Cardinality(matches) > 1 THEN Raise("AmbiguousGateId")
        ELSE Return(res.masks[CHOOSE p \in matches : TRUE])

\* GatingStrategy.get_gate(gate_id, gate_path): the gate at the one path the
\* arguments name
GatingStrategy_get_gate(gs, gate_id, gate_path) ==
    LET matches == {p \in DOMAIN gs.at :
                       p[Len(p)] = gate_id /\ (IsNone(gate_path) \/ p = The(gate_path))}
    IN  IF matches = {} THEN Raise("UnknownGate")
        ELSE IF Cardinality(matches) > 1 THEN Raise("AmbiguousGateId")
        ELSE Return(gs.at[CHOOSE p \in matches : TRUE])

\* a variant that looks the gate up by its id alone
Session_get_gate_indices_by_id(rl, group_name, sample_id, gate_id, gate_path) ==
    IF group_name \notin DOMAIN rl THEN Raise("KeyError")
    ELSE IF sample_id \notin DOMAIN rl[group_name].samples THEN Raise("KeyError")
    ELSE GatingResults_get_gate_indices(rl[group_name].samples[sample_id], gate_id, None)

\* Session.get_gate_indices (lines 620-621)
Session_get_gate_indices(rl, group_name, sample_id, gate_id, gate_path) ==
    IF group_name \notin DOMAIN rl THEN Raise("KeyError")
    ELSE IF sample_id \notin DOMAIN rl[group_name].samples THEN Raise("KeyError")
    ELSE GatingResults_get_gate_indices(rl[group_name].samples[sample_id], gate_id, gate_path)

\* Session.get_gate (lines 432-438): the template's gate when sample_id is
\* None, the sample's own strategy's gate otherwise
Session_get_gate(groups, h, group_name, gate_id, gate_path, sample_id) ==
    IF group_name \notin DOMAIN groups THEN Raise("KeyError")
    ELSE IF IsNone(sample_id)
    THEN GatingStrategy_get_gate(h[groups[group_name].template], gate_id, gate_path)
    ELSE IF The(sample_id) \notin DOMAIN groups[group_name].samples.at THEN Raise("KeyError")
    ELSE GatingStrategy_get_gate(h[groups[group_name].samples.at[The(sample_id)]],
                                 gate_id, gate_path)

\* the gate elements of the documents
RectA == Gate("A", None, <<Dimension("X", Some(0), Some(MaxVal))>>)
RectB == Gate("B", None, <<Dimension("Y", Some(MaxVal), None)>>)
RectCUnderA == Gate("C", Some("A"), <<Dimension("Y", None, Some(MaxVal))>>)
RectCUnderB == Gate("C", Some("B"), <<Dimension("Y", Some(MaxVal), None)>>)
Ref(id) == GateReferenceEl(Some(id), None)
RefComplement(id) == GateReferenceEl(Some(id), Some("true"))
BoolNot(id, refs) == BooleanEl(id, None, <<>>, <<>>, <<refs>>)
BoolAnd(id, refs) == BooleanEl(id, None, <<refs>>, <<>>, <<>>)
BoolOr(id, refs) == BooleanEl(id, None, <<>>, <<refs>>, <<>>)

\* the documents: the same id under two parents; gates stored before the
\* gates they depend on; Boolean gates of each operator; Boolean gates that
\* reference each other; Boolean gates with every operand count from 0 to 2;
\* elements the constructors reject; a repeated path
EvalDocs ==
    { <<RectA, RectB, RectCUnderA, RectCUnderB>>,
      <<RectCUnderA, RectA>>,
      <<BoolNot("N", <<Ref("A")>>), RectA>>,
      <<BoolNot("M", <<Ref("N")>>), BoolNot("N", <<Ref("A")>>), RectA>>,
      <<RectA, RectB, BoolAnd("D", <<Ref("A"), RefComplement("B")>>)>>,
      <<RectA, RectB, BoolOr("D", <<Ref("A"), Ref("B")>>)>>,
      <<RectA, BoolAnd("D", <<Ref("A")>>)>>,
      <<RectA, BoolOr("D", <<Ref("A")>>)>>,
      <<BoolNot("P", <<Ref("Q")>>), BoolNot("Q", <<Ref("P")>>)>>,
      <<RectA, BoolAnd("P", <<Ref("A"), Ref("Q")>>), BoolOr("Q", <<Ref("P")>>)>>,
      <<RectA, BoolNot("N", <<>>)>>,
      <<RectA, RectB, BoolNot("N", <<Ref("A"), Ref("B")>>)>>,
      <<RectA, BoolAnd("D", <<>>)>>,
      <<RectA, BoolOr("D", <<>>)>>,
      <<RectA, RectB, RectCUnderA, RectCUnderB, BoolNot("N", <<Ref("C")>>)>>,
      <<RectA, BoolNot("N", <<Ref("Z")>>)>>,
      <<BooleanEl("E", None, <<>>, <<>>, <<>>)>>,
      <<BoolNot("N", <<GateReferenceEl(None, None)>>)>>,
      <<RectA, RectA>> }

\* the arguments of the lookups
LookupIds == {"A", "C", "Z"}
LookupPaths == Opt({<<"A", "C">>, <<"B", "C">>, <<"A">>})

EvalInit ==
    /\ gates = <<>>
    /\ pnn_labels = <<"X", "Y">>
    /\ events \in {EventsA, EventsB}
    /\ call = [op |-> "none", arg |-> None, again |-> FALSE]
    /\ ret = Return(<<>>)
    /\ first_ret = <<>>
    /\ EvalIdle

\* a Session whose default group has the strategy built from the document
\* as its template and the loaded sample a.fcs assigned to it
EvalBuild(doc) ==
    /\ call.op = "none"
    /\ call' = [op |-> "init", arg |-> None, again |-> FALSE, doc |-> doc]
    /\ LET r == BuildStrategy(doc, 1, EmptyDict)
           S == AssignSample([lut |-> ("a.fcs" :> "Sample"),
                              groups |-> ("default" :> [template |-> 1, samples |-> EmptyDict]),
                              heap |-> (1 :> r.val)],
                             "a.fcs", "default")
       IN  /\ ret' = [exc |-> r.exc, val |-> <<>>]
           /\ IF Raised(r)
              THEN UNCHANGED <<gates, sample_lut, sample_group_lut, heap>>
              ELSE gates' = r.val /\ SetSession(S)
    /\ UNCHANGED <<pnn_labels, events, first_ret, eval_vars, results_lut, last, batch_vars>>

\* the evaluation of the sample begins: every gate of the strategy is to be
\* visited, in stored order
EvalStart ==
    /\ call.op = "init" /\ ~Raised(ret)
    /\ call' = [op |-> "gate_sample", arg |-> None, again |-> FALSE]
    /\ ev_pc' = "pass"
    /\ ev_pending' = gates.order
    /\ ev_deferred' = <<>>
    /\ ev_done' = <<>>
    /\ ev_progress' = FALSE
    /\ UNCHANGED <<gates, pnn_labels, events, ret, first_ret, session_vars, batch_vars>>

\* the evaluation ends with an error: nothing of it is kept
EvalAbort(exc) ==
    /\ ev_pc' = "done"
    /\ ret' = Raise(exc)
    /\ ev_pending' = <<>> /\ ev_deferred' = <<>> /\ ev_done' = <<>>
    /\ UNCHANGED ev_progress

\* the next gate of the pass: deferred when its parent or a gate it
\* references is not completed yet, evaluated over all events otherwise
EvalVisit ==
    /\ ev_pc = "pass" /\ ev_pending # <<>>
    /\ LET p == Head(ev_pending)
           g == gates.at[p]
           err == ResolutionError(gates, p)
           r == IF IsBoolean(g) THEN BooleanGate_apply(g, gates, ev_done, events)
                ELSE RectangleGate_apply(g, events, pnn_labels)
       IN  IF err # "none" THEN EvalAbort(err)
           ELSE IF ~(Dependencies(gates, p) \subseteq DOMAIN ev_done)
           THEN /\ ev_pending' = Tail(ev_pending)
                /\ ev_deferred' = Append(ev_deferred, p)
                /\ UNCHANGED <<ev_pc, ev_done, ev_progress, ret>>
           ELSE IF Raised(r) THEN EvalAbort(r.exc)
           ELSE /\ ev_pending' = Tail(ev_pending)
                /\ ev_done' = ev_done @@ (p :> r.val)
                /\ ev_progress' = TRUE
                /\ UNCHANGED <<ev_pc, ev_deferred, ret>>
    /\ UNCHANGED <<gates, pnn_labels, events, call, first_ret, session_vars, batch_vars>>

\* a variant that starts the next pass whenever gates are left
EvalPassEndRetrying ==
    /\ ev_pc = "pass" /\ ev_pending = <<>>
    /\ IF ev_deferred = <<>>
       THEN /\ ev_pc' = "done"
            /\ ret' = Return(<<>>)
            /\ results_lut' = StoreResults(results_lut, "default",
                   Returned(<<[sample_id |-> "a.fcs", masks |-> ev_done,
                               report |-> [p \in DOMAIN ev_done |-> PathCount(ev_done, p, events)]]>>))
            /\ UNCHANGED <<ev_pending, ev_deferred, ev_done, ev_progress>>
       ELSE /\ ev_pending' = ev_deferred
            /\ ev_deferred' = <<>>
            /\ ev_progress' = FALSE
            /\ UNCHANGED <<ev_pc, ev_done, ret, results_lut>>
    /\ UNCHANGED <<gates, pnn_labels, events, call, first_ret, sample_lut, sample_group_lut,
                   heap, last, batch_vars>>

\* the end of a pass: the results, which are ev_done, are returned and
\* stored by the Session (analyze_samples, lines 575-582) when no gate is
\* left, the call ending without an exception; a pass that
\* completed no gate ends the evaluation with CyclicGateDependency; otherwise
\* the deferred gates are visited again
EvalPassEnd ==
    /\ ev_pc = "pass" /\ ev_pending = <<>>
    /\ IF ev_deferred = <<>>
       THEN /\ ev_pc' = "done"
            /\ ret' = Return(<<>>)
            /\ results_lut' = StoreResults(results_lut, "default",
                   Returned(<<[sample_id |-> "a.fcs", masks |-> ev_done,
                               report |-> [p \in DOMAIN ev_done |-> PathCount(ev_done, p, events)]]>>))
            /\ UNCHANGED <<ev_pending, ev_deferred, ev_done, ev_progress>>
       ELSE IF ~ev_progress
       THEN EvalAbort("CyclicGateDependency") /\ UNCHANGED results_lut
       ELSE /\ ev_pending' = ev_deferred
            /\ ev_deferred' = <<>>
            /\ ev_progress' = FALSE
            /\ UNCHANGED <<ev_pc, ev_done, ret, results_lut>>
    /\ UNCHANGED <<gates, pnn_labels, events, call, first_ret, sample_lut, sample_group_lut,
                   heap, last, batch_vars>>

\* session.get_gate_indices('default', 'a.fcs', gate_id, gate_path) after the analysis
GetGateIndices(gate_id, gate_path) ==
    /\ call.op = "gate_sample" /\ ev_pc = "done"
    /\ call' = [op |-> "get_gate_indices", arg |-> Some(gate_id), again |-> FALSE,
                gate_path |-> gate_path]
    /\ ret' = Session_get_gate_indices(results_lut, "default", "a.fcs", gate_id, gate_path)
    /\ UNCHANGED <<gates, pnn_labels, events, first_ret, eval_vars, session_vars, batch_vars>>

\* session.get_gate('default', gate_id, gate_path, sample_id)
GetGate(gate_id, gate_path, sample_id) ==
    /\ call.op = "init" /\ ~Raised(ret)
    /\ call' = [op |-> "get_gate", arg |-> Some(gate_id), again |-> FALSE,
                gate_path |-> gate_path, sample_id |-> sample_id]
    /\ ret' = Session_get_gate(sample_group_lut, heap, "default", gate_id, gate_path, sample_id)
    /\ UNCHANGED <<gates, pnn_labels, events, first_ret, eval_vars, session_vars, batch_vars>>

\* Session.get_gating_results (lines 594-595): a deep copy of the stored
\* GatingResults; ref tells whether the object handed out is the stored one
Session_get_gating_results(rl, group_name, sample_id) ==
    IF group_name \notin DOMAIN rl THEN Raise("KeyError")
    ELSE IF sample_id \notin DOMAIN rl[group_name].samples THEN Raise("KeyError")
    ELSE Return([ref |-> "copy", kind |-> "GatingResults", obj |-> rl[group_name].samples[sample_id]])

\* Session.get_group_report (line 604): the stored DataFrame itself
Session_get_group_report(rl, group_name) ==
    IF group_name \notin DOMAIN rl THEN Raise("KeyError")
    ELSE Return([ref |-> "stored", kind |-> "DataFrame", obj |-> rl[group_name].report])

\* the reference a caller holds after an accessor returned: which kind of
\* object it is, and whether it is the stored object or a copy
HeldRef(returned) == [ref |-> returned.ref, kind |-> returned.kind]

\* a caller's in-place change of a DataFrame it holds: its rows dropped
MutatedInPlace(held) == <<>>

\* session.get_gating_results('default', sample_id) after the analysis
GetGatingResults(sample_id) ==
    /\ call.op \in {"gate_sample", "mutate"} /\ ev_pc = "done"
    /\ LET r == Session_get_gating_results(results_lut, "default", sample_id)
       IN  /\ call' = [op |-> "get_gating_results", arg |-> Some(sample_id), again |-> FALSE,
                       held |-> IF Raised(r) THEN None ELSE Some(HeldRef(r.val))]
           /\ ret' = [exc |-> r.exc, val |-> <<>>]
    /\ UNCHANGED <<gates, pnn_labels, events, first_ret, eval_vars, session_vars, batch_vars>>

\* session.get_group_report('default') after the analysis
GetGroupReport ==
    /\ call.op \in {"gate_sample", "mutate"} /\ ev_pc = "done"
    /\ LET r == Session_get_group_report(results_lut, "default")
       IN  /\ call' = [op |-> "get_group_report", arg |-> None, again |-> FALSE,
                       held |-> IF Raised(r) THEN None ELSE Some(HeldRef(r.val))]
           /\ ret' = [exc |-> r.exc, val |-> <<>>]
    /\ UNCHANGED <<gates, pnn_labels, events, first_ret, eval_vars, session_vars, batch_vars>>

\* the caller changes the object the accessor returned, in place: the
\* change is one of _results_lut when the object is the stored one, and of
\* the caller's copy alone otherwise
MutateReturned ==
    /\ call.op \in {"get_gating_results", "get_group_report"} /\ ~Raised(ret)
    /\ LET held == The(call.held)
       IN  /\ call' = [op |-> "mutate", arg |-> None, again |-> FALSE, held |-> call.held]
           /\ results_lut' = IF held.ref = "stored"
                             THEN [results_lut EXCEPT !["default"].report = MutatedInPlace(held)]
                             ELSE results_lut
    /\ UNCHANGED ret
    /\ UNCHANGED <<gates, pnn_labels, events, first_ret, eval_vars, sample_lut,
                   sample_group_lut, heap, last, batch_vars>>

EvalNext ==
    \/ \E doc \in EvalDocs : EvalBuild(doc)
    \/ EvalStart
    \/ EvalVisit
    \/ EvalPassEnd
    \/ \E gate_id \in LookupIds, gate_path \in LookupPaths : GetGateIndices(gate_id, gate_path)
    \/ \E gate_id \in LookupIds, gate_path \in LookupPaths, sample_id \in Opt({"a.fcs", "b.fcs"}) :
           GetGate(gate_id, gate_path, sample_id)
    \/ \E sample_id \in SampleIds : GetGatingResults(sample_id)
    \/ GetGroupReport
    \/ MutateReturned

-----------------------------------------------------------------------------
(* gml_gates.py: GMLEllipsoidGate *)

\* an Ellipsoid gate element: the value attributes of the mean element's
\* coordinate elements, of the entry elements of each row element of the
\* covarianceMatrix element, and of the distanceSquare element; an absent
\* attribute is None
EllipsoidEl(id, coord_els, row_els, dist_square_value) ==
    [id |-> id, parent |-> None, coord_els |-> coord_els, row_els |-> row_els,
     dist_square_value |-> dist_square_value]

\* the loop over the coordinate elements (lines 123-130) from position i
RECURSIVE ParseCoordinates(_, _, _)
ParseCoordinates(coord_els, i, coordinates) ==
    IF i > Len(coord_els) THEN Return(coordinates)
    ELSE IF IsNone(coord_els[i]) THEN Raise("ValueError")
    ELSE ParseCoordinates(coord_els, i + 1, Append(coordinates, The(coord_els[i])))

\* the loop over a row's entry elements (lines 152-155) from position i:
\* float() of an absent value is a TypeError
RECURSIVE ParseEntries(_, _, _)
ParseEntries(entry_els, i, entry_values) ==
    IF i > Len(entry_els) THEN Return(entry_values)
    ELSE IF IsNone(entry_els[i]) THEN Raise("TypeError")
    ELSE ParseEntries(entry_els, i + 1, Append(entry_values, The(entry_els[i])))

\* the loop over the row elements (lines 146-162) from position i: a row is
\* refused when its entry count is not the coordinate count
RECURSIVE ParseRows(_, _, _, _)
ParseRows(row_els, coordinates, i, covariance_matrix) ==
    IF i > Len(row_els) THEN Return(covariance_matrix)
    ELSE LET r == ParseEntries(row_els[i], 1, <<>>)
         IN  IF Raised(r) THEN r
             ELSE IF Len(r.val) # Len(coordinates) THEN Raise("ValueError")
             ELSE ParseRows(row_els, coordinates, i + 1, Append(covariance_matrix, r.val))

\* EllipsoidGate.__init__(gate_id, parent_id, dimensions, coordinates,
\* covariance_matrix, distance_square, gating_strategy): the gate holds its
\* center, covariance matrix and squared distance
EllipsoidGate_init(gate_id, parent_id, coordinates, covariance_matrix, distance_square) ==
    Return([id |-> gate_id, parent |-> parent_id, coordinates |-> coordinates,
            covariance_matrix |-> covariance_matrix, distance_square |-> distance_square])

\* GMLEllipsoidGate.__init__ on a parsed gate element (lines 104-182)
GMLEllipsoidGate_init(el) ==
    IF Len(el.coord_els) = 1 THEN Raise("ValueError")
    ELSE LET c == ParseCoordinates(el.coord_els, 1, <<>>)
         IN  IF Raised(c) THEN c
             ELSE LET m == ParseRows(el.row_els, c.val, 1, <<>>)
                  IN  IF Raised(m) THEN m
                      ELSE IF IsNone(el.dist_square_value) THEN Raise("TypeError")
                      ELSE EllipsoidGate_init(el.id, el.parent, c.val, m.val,
                                              The(el.dist_square_value))

\* coordinate lists: up to MaxDim values, and one with a value missing
CoordLists ==
    UNION {[1..n -> {Some(v) : v \in Vals}] : n \in 0..MaxDim} \cup {<<Some(0), None>>}

\* covariance rows: n rows of m entries each, a matrix with rows of unequal
\* length, and one with an entry's value missing
RowLists ==
    {[i \in 1..n |-> [j \in 1..m |-> Some(0)]] : n \in 0..MaxDim, m \in 0..MaxDim}
    \cup {<<<<Some(0), Some(0)>>, <<Some(0)>>>>, <<<<Some(0), None>>, <<Some(0), Some(0)>>>>}

EllipsoidGateEls ==
    {EllipsoidEl("E", cs, rs, Some(MaxVal)) : cs \in CoordLists, rs \in RowLists}
    \cup {EllipsoidEl("E", <<Some(0), Some(0)>>, <<<<Some(0), Some(0)>>, <<Some(0), Some(0)>>>>, None)}

EllipsoidInit ==
    /\ gates = <<>>
    /\ pnn_labels = <<"X", "Y">>
    /\ events = EventsA
    /\ call = [op |-> "none", arg |-> None, again |-> FALSE]
    /\ ret = Return(<<>>)
    /\ first_ret = <<>>
    /\ EvalIdle

\* GMLEllipsoidGate(gate_element, ...): the gate is kept when the constructor returns
EllipsoidBuild(el) ==
    /\ call.op = "none"
    /\ call' = [op |-> "ellipsoid_init", arg |-> Some(el.id), again |-> FALSE, el |-> el]
    /\ LET r == GMLEllipsoidGate_init(el)
       IN  /\ ret' = [exc |-> r.exc, val |-> <<>>]
           /\ gates' = IF Raised(r) THEN gates ELSE (el.id :> r.val)
    /\ UNCHANGED <<pnn_labels, events, first_ret, eval_vars, batch_vars, session_vars>>

EllipsoidNext == \E el \in EllipsoidGateEls : EllipsoidBuild(el)

-----------------------------------------------------------------------------
(* Specifications *)

GateParked ==
    /\ gates = <<>> /\ pnn_labels = <<>> /\ events = <<>>
    /\ call = [op |-> "none", arg |-> None, again |-> FALSE]
    /\ ret = Return(<<>>)
    /\ first_ret = <<>>
    /\ EvalIdle

\* Rectangle gates applied to samples
InitRect == RectInit /\ BatchParked /\ SessionParked
SpecRect == InitRect /\ [][RectNext]_vars

\* one strategy evaluated on one sample with gate_sample
InitGate == GateInit /\ BatchParked /\ SessionParked
SpecGate == InitGate /\ [][GateNext]_vars

\* Quadrant gates built from gate elements and applied to samples
InitQuad == QuadInit /\ BatchParked /\ SessionParked
SpecQuad == InitQuad /\ [][QuadNext]_vars

\* Ellipsoid gates built from gate elements
InitEllipsoid == EllipsoidInit /\ BatchParked /\ SessionParked
SpecEllipsoid == InitEllipsoid /\ [][EllipsoidNext]_vars

\* a strategy with Boolean gates built, evaluated pass by pass and queried
InitEval == EvalInit /\ BatchParked /\ SessionParked
SpecEval == InitEval /\ [][EvalNext]_vars

\* the evaluation, once begun, keeps taking its steps until it has ended
SpecEvalFair == SpecEval /\ WF_vars(EvalVisit) /\ WF_vars(EvalPassEnd)

\* _gate_samples called on a list of units, on either path
InitBatch == BatchInit /\ GateParked /\ SessionParked
SpecBatch == InitBatch /\ [][BatchNext]_vars

\* a Session taken through its operations
InitSession == SessionInit /\ GateParked
SpecSession == InitSession /\ [][SessionNext]_vars

-----------------------------------------------------------------------------
(* C1 *)

\* what the claim says of one event and one gate: every dimension's value is
\* >= min when min is present and < max when max is present
InRectangle(gate, row, labels) ==
    \A i \in DOMAIN gate.dimensions :
        LET d == gate.dimensions[i]
            v == row[Index(labels, d.label)]
        IN  /\ (~IsNone(d.min) => v >= The(d.min))
            /\ (~IsNone(d.max) => v < The(d.max))

\* C1: whenever RectangleGate.apply returns a mask, an event is a member iff
\* for every dimension value >= min (when present) and value < max (when
\* present): lower bound included, upper bound excluded, dimensions and-ed.
C1_RectangleMembership ==
    (call.op = "apply" /\ ~Raised(ret)) =>
        /\ DOMAIN ret.val = DOMAIN events
        /\ \A e \in DOMAIN events :
              ret.val[e] <=> InRectangle(gates[call.arg], events[e], pnn_labels)

\* a two-dimensional gate with both bounds, applied to an event on the upper
\* bound of one dimension (excluded) and an event on the lower bound (included)
C1_Witness ==
    /\ call.op = "apply" /\ ~Raised(ret)
    /\ Len(gates[call.arg].dimensions) = 2
    /\ \A i \in 1..2 : /\ ~IsNone(gates[call.arg].dimensions[i].min)
                       /\ ~IsNone(gates[call.arg].dimensions[i].max)
    /\ \E e \in DOMAIN events :
          /\ ~ret.val[e]
          /\ \E i \in 1..2 :
                LET d == gates[call.arg].dimensions[i]
                IN  events[e][Index(pnn_labels, d.label)] = The(d.max)
    /\ \E e \in DOMAIN events :
          /\ ret.val[e]
          /\ \E i \in 1..2 :
                LET d == gates[call.arg].dimensions[i]
                IN  events[e][Index(pnn_labels, d.label)] = The(d.min)

-----------------------------------------------------------------------------
(* C3, C4, C6, C7, C8: _gate_samples *)

\* the step-by-step machine ends a call only in the ways GateSamplesOutcomes
\* lists, which is what the Session's analyze_samples is modelled with
BatchEndsAsListed ==
    /\ outcomes["pool"].kind # "none" =>
          outcomes["pool"] \in GateSamplesOutcomes(gating_strategies, samples, TRUE, multi_proc, cpu_count)
    /\ outcomes["loop"].kind # "none" =>
          outcomes["loop"] \in GateSamplesOutcomes(gating_strategies, samples, FALSE, multi_proc, cpu_count)

\* what unit i's evaluation gives: gating_strategies[i].gate_sample(samples[i])
UnitResult(i) == gate_sample_results(gating_strategies[i], samples[i])
Fails(i) == Raised(UnitResult(i))

\* C3: for the same list of units, the call that takes the pool path and the
\* call that takes the loop path end the same way, with the same list of
\* results.
C3_SameResultsOnBothPaths ==
    (outcomes["pool"].kind # "none" /\ outcomes["loop"].kind # "none") =>
        /\ outcomes["pool"].kind = outcomes["loop"].kind
        /\ outcomes["pool"].val = outcomes["loop"].val

\* C4: when the evaluation of a unit fails, a finished call that evaluated
\* its units (on either path) has delivered the result of every other unit
\* and names the failing unit.
C4_FailuresIsolated ==
    \A p \in Paths :
        (/\ outcomes[p].kind # "none"
         /\ ~(outcomes[p].kind = "raised" /\ outcomes[p].unit = 0)
         /\ \E i \in DOMAIN samples : Fails(i)) =>
            \A i \in DOMAIN samples :
                IF Fails(i)
                THEN outcomes[p].kind = "raised" /\ outcomes[p].unit = i
                ELSE /\ outcomes[p].kind = "returned"
                     /\ outcomes[p].val[i] = UnitResult(i).val

\* C6: on both paths the i-th element of the returned list is the result of
\* gating_strategies[i].gate_sample(samples[i]), whatever order the workers
\* finished in.
C6_ResultsInSampleOrder ==
    \A p \in Paths :
        outcomes[p].kind = "returned" =>
            /\ DOMAIN outcomes[p].val = DOMAIN samples
            /\ \A i \in DOMAIN samples : outcomes[p].val[i] = UnitResult(i).val

\* a pool.map that returned its list after a later chunk finished before an
\* earlier one
C6_Witness ==
    /\ outcomes["pool"].kind = "returned"
    /\ pool_requested /\ b_pc = "idle"
    /\ \E j, k \in DOMAIN finish_order : j < k /\ finish_order[j] > finish_order[k]

\* C7: on the pool path the number of processes requested is
\* min(sample_count, cpu_count - 1) and is at most the sample count.
C7_WorkerCount ==
    pool_requested =>
        /\ proc_count = (IF Len(samples) <= cpu_count - 1 THEN Len(samples) ELSE cpu_count - 1)
        /\ proc_count <= Len(samples)

\* a pool of cpu_count - 1 workers running with as many samples as CPUs
C7_Witness ==
    /\ pool_requested /\ b_pc = "pool"
    /\ Len(samples) = cpu_count
    /\ DOMAIN workers = 1..(cpu_count - 1)

\* C8: a pool is requested only when multi-processing is available, use_mp
\* is true and more than one sample is queued; with 0 or 1 samples, or with
\* use_mp false, no pool is requested and every unit is evaluated in the
\* calling process, all of them by the time the list is returned.
C8_PoolOnlyWhenAllowed ==
    /\ pool_requested => (multi_proc /\ use_mp /\ Len(samples) > 1)
    /\ (Len(samples) <= 1 \/ ~use_mp) =>
          /\ ~pool_requested
          /\ \A i \in DOMAIN evaluated_by : evaluated_by[i] = "caller"
    /\ (~pool_requested /\ b_pc = "idle" /\ outcomes["loop"].kind = "returned") =>
          DOMAIN evaluated_by = DOMAIN samples

\* one sample queued with multi-processing available and use_mp true: the
\* call returned from the loop, having evaluated the sample in the caller
C8_Witness ==
    /\ multi_proc /\ use_mp /\ Len(samples) = 1
    /\ b_pc = "idle" /\ outcomes["loop"].kind = "returned"
    /\ 1 \in DOMAIN evaluated_by /\ evaluated_by[1] = "caller"

-----------------------------------------------------------------------------
(* C2, C5, C9: Session *)

\* the strategy object a sample has in a group
StrategyOf(g, sid) == sample_group_lut[g].samples.at[sid]
Memberships == {m \in (DOMAIN sample_group_lut) \X SampleIds :
                   m[2] \in DOMAIN sample_group_lut[m[1]].samples.at}

\* C2: the strategy a sample has in a group is never the same object as the
\* group's template nor as the strategy of another sample (of any group).
C2_StrategiesNotShared ==
    \A m \in Memberships :
        /\ StrategyOf(m[1], m[2]) # sample_group_lut[m[1]].template
        /\ \A n \in Memberships \ {m} : StrategyOf(m[1], m[2]) # StrategyOf(n[1], n[2])

\* C5: after analyze_samples every sample selected for the run has a stored
\* Gating Results entry or is named by the error the call surfaced.
C5_NoSampleDropped ==
    last.op = "analyze_samples" =>
        \A sid \in last.selected :
            \/ /\ last.group \in DOMAIN results_lut
               /\ sid \in DOMAIN results_lut[last.group].samples
            \/ last.unit = sid

\* C9: an analyze_samples call that ends with an exception leaves
\* _results_lut, every group's stored results and report, as it was before
\* the call.
C9_NothingStoredOnFailure ==
    [][(last'.op = "analyze_samples" /\ last'.exc # "none") => results_lut' = results_lut]_vars

\* the evaluation of a sample raised in a group that still holds the results
\* of an earlier run
C9_Witness ==
    /\ last.op = "analyze_samples"
    /\ last.unit \in SampleIds
    /\ last.group \in DOMAIN results_lut
    /\ last.unit \in DOMAIN results_lut[last.group].samples

-----------------------------------------------------------------------------
(* C10 *)

-----------------------------------------------------------------------------
(* C11 *)

\* the quadrant masks of event e that are true
QuadrantsHolding(e) == {q \in DOMAIN ret.val : ret.val[q][e]}

\* C11: whenever a Quadrant gate built by GMLQuadrantGate has been applied to
\* a sample, every event is inside exactly one of the gate's quadrants.
C11_ExactlyOneQuadrant ==
    (call.op = "quadrant_apply" /\ ~Raised(ret)) =>
        \A e \in DOMAIN events : Cardinality(QuadrantsHolding(e)) = 1

\* the declared quadrants of the gate name every cell of the divided space
\* once: each positions every divider, and the cells they fall in are all
\* the cells and pairwise different
CellOf(ranges) == {<<ranges[i].divider, ranges[i].min, ranges[i].max>> : i \in DOMAIN ranges}
DeclaresEveryCellOnce(gate) ==
    LET qs == gate.quadrants
        cells == {CellOf(qs[q]) : q \in DOMAIN qs}
        splits(d) == {gate.dividers[d].values[k] : k \in DOMAIN gate.dividers[d].values}
        ncells(d) == Cardinality(splits(d)) + 1
    IN  /\ \A q \in DOMAIN qs :
               /\ Len(qs[q]) = Len(gate.dividers)
               /\ \A d \in DOMAIN gate.dividers :
                      \E i \in DOMAIN qs[q] : qs[q][i].divider = gate.dividers[d].id
        /\ Cardinality(cells) = Cardinality(DOMAIN qs)
        /\ Cardinality(cells) =
               (IF Len(gate.dividers) = 1 THEN ncells(1) ELSE ncells(1) * ncells(2))

\* the ranges GMLQuadrantGate derives partition the divided space: a gate
\* that declares every cell once puts every event in exactly one quadrant
QuadrantRangesPartition ==
    (call.op = "quadrant_apply" /\ ~Raised(ret) /\ DeclaresEveryCellOnce(gates["Q"])) =>
        \A e \in DOMAIN events : Cardinality(QuadrantsHolding(e)) = 1

\* a complete gate with three cells on one divider has been applied
QuadrantRangesPartition_Reached ==
    /\ call.op = "quadrant_apply" /\ ~Raised(ret)
    /\ DeclaresEveryCellOnce(gates["Q"])
    /\ \E e, f \in DOMAIN events : QuadrantsHolding(e) # QuadrantsHolding(f)

-----------------------------------------------------------------------------
(* C12 *)

\* a gate element with a dimension that has neither min nor max
LacksBothBounds(g) ==
    \E i \in DOMAIN g.dimensions : IsNone(g.dimensions[i].min) /\ IsNone(g.dimensions[i].max)

\* C12: building a strategy from a document that holds a Rectangle gate with
\* a dimension lacking both bounds ends with an error; no strategy is built.
C12_UnboundedRejectedAtBuild ==
    (call.op = "init" /\ \E i \in DOMAIN call.doc : LacksBothBounds(call.doc[i])) =>
        Raised(ret)

-----------------------------------------------------------------------------
(* C14 *)

\* the gate elements of the document have pairwise different paths: no two
\* share both the id and the parent
PathsDiffer(doc) ==
    \A i, j \in DOMAIN doc :
        i # j => (doc[i].id # doc[j].id \/ doc[i].parent # doc[j].parent)

\* C14: a document whose gates have pairwise different paths is accepted and
\* every gate of it is kept as an entry of its own, also when two of them
\* share the id under different parents; a document that repeats a whole
\* path is rejected.
C14_SameIdUnderDifferentParents ==
    call.op = "init" =>
        /\ PathsDiffer(call.doc) =>
               (~Raised(ret) /\ Cardinality(DOMAIN gates) = Len(call.doc))
        /\ ~PathsDiffer(call.doc) => Raised(ret)

-----------------------------------------------------------------------------
(* C17 *)

\* C17: in every gate_sample call, a gate whose parent is a gate of the
\* strategy has apply called on it only after apply was called on the parent.
C17_ParentEvaluatedFirst ==
    (call.op = "gate_sample" /\ ~Raised(ret)) =>
        \A k \in DOMAIN call.applied :
            LET g == gates[call.applied[k]]
            IN  (~IsNone(g.parent) /\ The(g.parent) \in DOMAIN gates) =>
                    \E j \in 1..(k - 1) : call.applied[j] = The(g.parent)

-----------------------------------------------------------------------------
(* C18 *)

\* C18: the mask gate_sample returns for a gate is the gate's own rectangle
\* predicate on every event of the sample, whatever the parent's mask is.
C18_MaskIsOwnPredicate ==
    (call.op = "gate_sample" /\ ~Raised(ret)) =>
        \A k \in DOMAIN ret.val :
            /\ DOMAIN ret.val[k] = DOMAIN events
            /\ \A e \in DOMAIN events :
                   ret.val[k][e] <=> InRectangle(gates[k], events[e], pnn_labels)

\* a gate with a parent in the strategy was evaluated on a sample that has
\* an event inside the gate and outside the parent, and the event's entry
\* in the returned mask is true
C18_Witness ==
    /\ call.op = "gate_sample" /\ ~Raised(ret)
    /\ \E k \in DOMAIN ret.val :
          /\ ~IsNone(gates[k].parent) /\ The(gates[k].parent) \in DOMAIN gates
          /\ ~LacksBothBounds(gates[The(gates[k].parent)])
          /\ \E e \in DOMAIN events :
                /\ ret.val[k][e]
                /\ ~InRectangle(gates[The(gates[k].parent)], events[e], pnn_labels)

-----------------------------------------------------------------------------
(* C19 *)

\* every gate of the strategy applies to the sample without an exception
AllGatesApply ==
    \A g \in DOMAIN gates : ~Raised(RectangleGate_apply(gates[g], events, pnn_labels))

\* C19: gate_sample with gate_id None, on a strategy whose gates all apply
\* to the sample, returns a dictionary whose keys are the strategy's gate ids.
C19_NoneEvaluatesEveryGate ==
    (call.op = "gate_sample" /\ IsNone(call.arg) /\ AllGatesApply) =>
        (~Raised(ret) /\ DOMAIN ret.val = DOMAIN gates)

-----------------------------------------------------------------------------
(* C20 *)

\* the gates above g in the hierarchy
RECURSIVE Ancestors(_, _)
Ancestors(gs, g) ==
    IF IsNone(gs[g].parent) \/ The(gs[g].parent) \notin DOMAIN gs THEN {}
    ELSE {The(gs[g].parent)} \cup Ancestors(gs, The(gs[g].parent))

\* C20: gate_sample with the id of a gate that has a parent, on a strategy
\* whose gates all apply to the sample, returns entries for the gate and
\* for all its ancestors.
C20_AncestorsIncluded ==
    (/\ call.op = "gate_sample" /\ ~IsNone(call.arg)
     /\ call.arg \subseteq DOMAIN gates
     /\ AllGatesApply
     /\ Ancestors(gates, The(call.arg)) # {}) =>
        (~Raised(ret) /\ DOMAIN ret.val = {The(call.arg)} \cup Ancestors(gates, The(call.arg)))

-----------------------------------------------------------------------------
(* C13 *)

\* the operand count of a Boolean gate element is wrong for its operator:
\* a not with other than one reference, an and or an or with none
BadOperandCount(el) ==
    /\ IsBooleanEl(el)
    /\ IF Len(el.and_els) > 0 THEN Len(el.and_els[1]) = 0
       ELSE IF Len(el.or_els) > 0 THEN Len(el.or_els[1]) = 0
       ELSE IF Len(el.not_els) > 0 THEN Len(el.not_els[1]) # 1
       ELSE FALSE

\* C13: a document holding a Boolean gate element with a wrong operand
\* count is rejected with an error when its gates are constructed.
C13_OperandCountRejected ==
    (call.op = "init" /\ \E i \in DOMAIN call.doc : BadOperandCount(call.doc[i])) =>
        Raised(ret)

-----------------------------------------------------------------------------
(* C15 *)

\* the paths ending in the gate id of the last lookup, among the paths ps
PathsNamed(ps) == {p \in ps : p[Len(p)] = The(call.arg)}

\* the strategy Session.get_gate was asked about
AskedStrategy ==
    IF IsNone(call.sample_id) THEN heap[sample_group_lut["default"].template]
    ELSE heap[sample_group_lut["default"].samples.at[The(call.sample_id)]]

\* C15: a lookup through the Session by a gate id that two paths end in
\* raises AmbiguousGateId when no gate_path is given, and with the gate_path
\* of one of the two returns what is kept under that path: the mask for
\* get_gate_indices, the gate for get_gate.
C15_AmbiguousIdNeedsPath ==
    /\ (call.op = "get_gate_indices" /\ "default" \in DOMAIN results_lut) =>
          LET masks == results_lut["default"].samples["a.fcs"].masks
          IN  Cardinality(PathsNamed(DOMAIN masks)) > 1 =>
                /\ IsNone(call.gate_path) => ret.exc = "AmbiguousGateId"
                /\ (~IsNone(call.gate_path) /\ The(call.gate_path) \in PathsNamed(DOMAIN masks)) =>
                       ret = Return(masks[The(call.gate_path)])
    /\ (/\ call.op = "get_gate" /\ call.sample_id \subseteq {"a.fcs"}
        /\ Cardinality(PathsNamed(DOMAIN AskedStrategy.at)) > 1) =>
          /\ IsNone(call.gate_path) => ret.exc = "AmbiguousGateId"
          /\ (~IsNone(call.gate_path) /\ The(call.gate_path) \in PathsNamed(DOMAIN AskedStrategy.at)) =>
                 ret = Return(AskedStrategy.at[The(call.gate_path)])

\* a mask was looked up by gate_path for an id that two paths end in, and
\* the masks under the two paths differ
C15_Witness ==
    /\ call.op = "get_gate_indices" /\ ~Raised(ret) /\ ~IsNone(call.gate_path)
    /\ "default" \in DOMAIN results_lut
    /\ LET masks == results_lut["default"].samples["a.fcs"].masks
       IN  /\ Cardinality(PathsNamed(DOMAIN masks)) > 1
           /\ \E q \in PathsNamed(DOMAIN masks) : masks[q] # ret.val

-----------------------------------------------------------------------------
(* C16 *)

\* the gates the gate at path q references
RefsOf(gs, q) ==
    IF IsBoolean(gs.at[q])
    THEN UNION {RefMatches(gs, gs.at[q].gate_refs[i].ref) : i \in DOMAIN gs.at[q].gate_refs}
    ELSE {}

\* the gates reached from the set S along at most n references
RECURSIVE RefReach(_, _, _)
RefReach(gs, S, n) ==
    IF n = 0 THEN S ELSE RefReach(gs, S \cup UNION {RefsOf(gs, q) : q \in S}, n - 1)

\* some gate of the strategy references itself through other gates
HasReferenceCycle(gs) ==
    \E q \in DOMAIN gs.at : q \in RefReach(gs, RefsOf(gs, q), Len(gs.order))

\* C16: every evaluation that has begun ends; a pass that ends with gates
\* left and none completed ends the evaluation at once with
\* CyclicGateDependency; and the evaluation of a strategy whose Boolean gates
\* reference each other in a cycle ends with that error.
C16_EvaluationTerminates ==
    /\ [](ev_pc = "pass" => <>(ev_pc = "done"))
    /\ [][(ev_pc = "pass" /\ ev_pending = <<>> /\ ev_deferred # <<>> /\ ~ev_progress) =>
             (ev_pc' = "done" /\ ret'.exc = "CyclicGateDependency")]_vars
    /\ []((call.op = "gate_sample" /\ ev_pc = "done" /\ HasReferenceCycle(gates)) =>
             ret.exc = "CyclicGateDependency")

\* the evaluation of a strategy with two gates referencing each other and a
\* third gate, completed in the first pass, has ended with the error
C16_Witness ==
    /\ call.op = "gate_sample" /\ ev_pc = "done"
    /\ HasReferenceCycle(gates)
    /\ Len(gates.order) = 3
    /\ ret.exc = "CyclicGateDependency"

\* C29: whenever _gate_samples takes the parallel path, the number of worker
\* processes it requests is at least 1, for every CPU count including 1.
C29_AtLeastOneWorker ==
    pool_requested => proc_count >= 1

\* the split points of the dividers named ref
DividerValues(dividers, ref) ==
    UNION {Range(dividers[i].values) : i \in {j \in DOMAIN dividers : dividers[j].id = ref}}

Greatest(S) == CHOOSE v \in S : \A w \in S : w <= v

Least(S) == CHOOSE v \in S : \A w \in S : v <= w

\* the range derived for one position: min is the greatest split point at or
\* below the location, max the least one above it, each absent when there is none
DerivedFromSet(dividers, r) ==
    LET vs == DividerValues(dividers, r.divider)
        below == {v \in vs : v <= r.location}
        above == {v \in vs : v > r.location}
    IN  /\ r.min = (IF below = {} THEN None ELSE Some(Greatest(below)))
        /\ r.max = (IF above = {} THEN None ELSE Some(Least(above)))
        /\ IsNone(r.min) \/ The(r.min) <= r.location
        /\ IsNone(r.max) \/ r.location < The(r.max)

\* C26: every range of every quadrant of a built Quadrant gate has as min
\* the greatest split point of its divider that is <= the location and as
\* max the least split point > the location (absent when there is none), so
\* min <= location < max, whatever the order the split points are listed in.
C26_RangeFromSortedValues ==
    \A gid \in DOMAIN gates :
        call.op \in {"quadrant_init", "quadrant_apply"} =>
            \A q \in DOMAIN gates[gid].quadrants :
                \A i \in DOMAIN gates[gid].quadrants[q] :
                    DerivedFromSet(gates[gid].dividers, gates[gid].quadrants[q][i])

\* a gate built from split points listed in descending order, with a
\* quadrant located between them: both bounds are present
C26_Witness ==
    /\ call.op = "quadrant_init"
    /\ \E gid \in DOMAIN gates :
           /\ \E d \in DOMAIN gates[gid].dividers :
                  /\ Len(gates[gid].dividers[d].values) = 2
                  /\ gates[gid].dividers[d].values[1] > gates[gid].dividers[d].values[2]
           /\ \E q \in DOMAIN gates[gid].quadrants :
                  \E i \in DOMAIN gates[gid].quadrants[q] :
                      /\ ~IsNone(gates[gid].quadrants[q][i].min)
                      /\ ~IsNone(gates[gid].quadrants[q][i].max)

\* the ids assigned to a group
AssignedIds(group_name) == DOMAIN sample_group_lut[group_name].samples.at

\* C22: get_group_sample_ids(group, loaded_only=True) returns exactly the
\* ids that are assigned to the group and loaded in the Session.
C22_LoadedGroupIdsAreIntersection ==
    \A g \in DOMAIN sample_group_lut :
        GroupSampleIds(g, TRUE) = AssignedIds(g) \cap LoadedSampleIds

\* C23: get_group_samples(group) returns only loaded Sample instances that
\* belong to the group: no None, no sample of another group, no error.
C23_GroupSamplesLoadedMembers ==
    \A g \in DOMAIN sample_group_lut :
        LET r == GroupSamples(g)
        IN  /\ ~Raised(r)
            /\ \A k \in DOMAIN r.val : r.val[k] = "Sample" /\ k \in AssignedIds(g)

\* the strategy objects a Session refers to other than default's entry for sid
OtherStrategies(sid) ==
    {sample_group_lut[g].template : g \in DOMAIN sample_group_lut}
    \cup {sample_group_lut[g].samples.at[k] :
            <<g, k>> \in {p \in (DOMAIN sample_group_lut) \X SampleIds :
                            /\ p[2] \in AssignedIds(p[1])
                            /\ p # <<"default", sid>>}}

\* C24: the 'default' group always exists, and every sample loaded through
\* add_samples is a member of it with a gating strategy object of its own,
\* shared with no template and no other sample entry.
C24_LoadedSamplesInDefault ==
    /\ "default" \in DOMAIN sample_group_lut
    /\ \A sid \in LoadedSampleIds :
           /\ sid \in AssignedIds("default")
           /\ sample_group_lut["default"].samples.at[sid] \in DOMAIN heap
           /\ sample_group_lut["default"].samples.at[sid] \notin OtherStrategies(sid)

\* add_samples has loaded two samples while a second group exists
C24_Witness ==
    /\ last.op = "add_samples"
    /\ LoadedSampleIds = SampleIds
    /\ "wsp" \in DOMAIN sample_group_lut
    /\ AssignedIds("wsp") # {}

\* C25: analyze_samples(group, sample_id) on a group without assigned
\* samples, or for a sample_id not assigned to the group, returns after a
\* warning: no error, nothing evaluated, the stored results unchanged.
C25_NothingToAnalyzeIsHarmless ==
    [][(/\ last'.op = "analyze_samples"
        /\ last'.group \in DOMAIN sample_group_lut
        /\ \/ AssignedIds(last'.group) = {}
           \/ ~IsNone(last'.arg) /\ The(last'.arg) \notin AssignedIds(last'.group))
       => (/\ last'.exc = "none"
           /\ last'.selected = {}
           /\ results_lut' = results_lut)]_vars

\* the strategy objects of a group: its template and its samples' strategies
GroupStrategies(groups, g) ==
    {groups[g].template} \cup {groups[g].samples.at[k] : k \in DOMAIN groups[g].samples.at}

\* add_gate returned: template and sample strategies are objects of their
\* own, none of them had the gate before, and each has it now next to the
\* gates it had
AddGateReached(g, gate_id) ==
    /\ Cardinality(GroupStrategies(sample_group_lut, g)) = 1 + Cardinality(AssignedIds(g))
    /\ \A o \in GroupStrategies(sample_group_lut, g) :
           /\ gate_id \notin DOMAIN heap[o]
           /\ gate_id \in DOMAIN heap'[o]
           /\ heap'[o][gate_id].id = gate_id
           /\ \A k \in DOMAIN heap[o] : heap'[o][k] = heap[o][k]
           /\ DOMAIN heap'[o] = DOMAIN heap[o] \cup {gate_id}

\* assign_sample put a sample into the group: its strategy is a new object
\* holding the gates of the template
AssignCopiedTemplate(g, sid) ==
    LET o == sample_group_lut'[g].samples.at[sid]
    IN  /\ o \notin DOMAIN heap
        /\ heap'[o] = heap[sample_group_lut[g].template]

\* C27, first part: after add_gate(gate, group) returns, the template and
\* every sample strategy of the group each hold their own copy of the gate,
\* added exactly once to each, and a sample assigned to the group with
\* assign_sample afterwards gets the gates of the template.
C27_GateReachesTemplateAndSamples ==
    [][/\ (last'.op = "add_gate" /\ last'.exc = "none")
            => AddGateReached(last'.group, The(last'.arg))
       /\ (/\ last'.op = "assign_sample" /\ last'.exc = "none"
           /\ The(last'.arg) \notin AssignedIds(last'.group))
            => AssignCopiedTemplate(last'.group, The(last'.arg))]_vars

\* template and sample strategies of every group hold the same gate ids
SameGatesInGroups ==
    \A g \in DOMAIN sample_group_lut :
        \A o \in GroupStrategies(sample_group_lut, g) :
            DOMAIN heap[o] = DOMAIN heap[sample_group_lut[g].template]

\* C27 as stated: the gate reaches template and samples, a sample assigned
\* afterwards gets it, and so template and sample strategies of a group
\* always hold the same set of gates.
C27_TemplateAndSamplesSameGates ==
    C27_GateReachesTemplateAndSamples /\ []SameGatesInGroups

\* add_gate returned on a group with an assigned sample
C27_Witness ==
    /\ last.op = "add_gate" /\ last.exc = "none"
    /\ AssignedIds(last.group) # {}
    /\ \A o \in GroupStrategies(sample_group_lut, last.group) : The(last.arg) \in DOMAIN heap[o]

\* the sample ids the rows of a group's stored report are about
ReportSampleIds(rl, g) == {rl[g].report[i][1] : i \in DOMAIN rl[g].report}

\* C30: after analyze_samples(group, sample_id) has evaluated samples, the
\* results and the report stored for the group are about exactly the
\* samples evaluated in that call, whatever was stored for the group
\* before, and what is stored for other groups is unchanged.
C30_ReanalysisOverwritesGroup ==
    [][(last'.op = "analyze_samples" /\ last'.exc = "none" /\ last'.selected # {})
       => (/\ last'.group \in DOMAIN results_lut'
           /\ StoredSampleIds(results_lut', last'.group) = last'.selected
           /\ ReportSampleIds(results_lut', last'.group) = last'.selected
           /\ DOMAIN results_lut' = DOMAIN results_lut \cup {last'.group}
           /\ \A g \in DOMAIN results_lut \ {last'.group} : results_lut'[g] = results_lut[g])]_vars

\* 'default' held results for both samples and was analyzed again for
\* a.fcs alone, while 'wsp' holds results of its own
C30_Witness ==
    /\ last.op = "analyze_samples" /\ last.exc = "none"
    /\ last.group = "default" /\ last.arg = Some("a.fcs")
    /\ last.had = SampleIds
    /\ StoredSampleIds(results_lut, "default") = {"a.fcs"}
    /\ "wsp" \in DOMAIN results_lut

\* what the accessors return for the analyzed group and sample
AccessorsReturn(rl) ==
    <<Session_get_gating_results(rl, "default", "a.fcs").val,
      Session_get_group_report(rl, "default").val>>

\* C21: stored results are immutable after the analysis: a caller's change
\* of an object returned by get_gating_results or get_group_report never
\* changes what later calls of these accessors return.
C21_ReturnedObjectsAreCopies ==
    [][call'.op = "mutate" => AccessorsReturn(results_lut') = AccessorsReturn(results_lut)]_vars

\* the element is an Ellipsoid of at least 2 coordinates, every value
\* present, with a covariance matrix of as many rows and as many entries per
\* row as coordinates
WellFormedEllipsoid(el) ==
    /\ Len(el.coord_els) >= 2
    /\ \A i \in DOMAIN el.coord_els : ~IsNone(el.coord_els[i])
    /\ Len(el.row_els) = Len(el.coord_els)
    /\ \A i \in DOMAIN el.row_els :
           /\ Len(el.row_els[i]) = Len(el.coord_els)
           /\ \A j \in DOMAIN el.row_els[i] : ~IsNone(el.row_els[i][j])
    /\ ~IsNone(el.dist_square_value)

\* C28: every Ellipsoid gate GMLEllipsoidGate builds has at least 2 center
\* coordinates and a square covariance matrix with as many rows and as many
\* columns as center coordinates; any other element is rejected with an error.
C28_EllipsoidSquareCovariance ==
    call.op = "ellipsoid_init" =>
        /\ \A gid \in DOMAIN gates :
               /\ Len(gates[gid].coordinates) >= 2
               /\ Len(gates[gid].covariance_matrix) = Len(gates[gid].coordinates)
               /\ \A i \in DOMAIN gates[gid].covariance_matrix :
                      Len(gates[gid].covariance_matrix[i]) = Len(gates[gid].coordinates)
        /\ ~WellFormedEllipsoid(call.el) => Raised(ret)

====
